---- MODULE Spec2Model ----
(***************************************************************************)
(* Model of the paraphrase engine of SynonymFinder/word_lookup.py.         *)
(* Sentences, tokens and variants are strings; the string primitives of    *)
(* Python that the code relies on (lower, isalnum, split, join, re.sub of  *)
(* the punctuation patterns) are computed character by character.          *)
(***************************************************************************)
EXTENDS Integers, Sequences, FiniteSets, TLC

(***************************************************************************)
(* Characters and Python string primitives                                 *)
(***************************************************************************)
LowerAlpha == "abcdefghijklmnopqrstuvwxyz"
UpperAlpha == "ABCDEFGHIJKLMNOPQRSTUVWXYZ"
DigitChars == {"0", "1", "2", "3", "4", "5", "6", "7", "8", "9"}

\* s[a-1:b] of Python on a string, with indices counted from 1 and clipped
Mid(s, a, b) ==
    LET e == IF b < Len(s) THEN b ELSE Len(s)
    IN  IF a < 1 \/ a > e THEN "" ELSE SubSeq(s, a, e)

Char(s, i) == Mid(s, i, i)

LowerChars == {Char(LowerAlpha, i) : i \in 1..26}
UpperChars == {Char(UpperAlpha, i) : i \in 1..26}

LowerOfChar == [c \in UpperChars |-> Char(LowerAlpha, CHOOSE i \in 1..26 : Char(UpperAlpha, i) = c)]
UpperOfChar == [c \in LowerChars |-> Char(UpperAlpha, CHOOSE i \in 1..26 : Char(LowerAlpha, i) = c)]

\* str.isalnum on one character
IsAlnumChar(c) == c \in LowerChars \cup UpperChars \cup DigitChars

\* the class \w of the re module
IsWordChar(c) == IsAlnumChar(c) \/ c = "_"

\* the class \s of the re module (the model's texts hold no other blank)
IsSpaceChar(c) == c = " "

\* the class [.,!?;:] of the punctuation patterns
IsPunctChar(c) == c \in {".", ",", "!", "?", ";", ":"}

RECURSIVE lower(_)
lower(s) ==
    IF s = "" THEN ""
    ELSE (IF Head(s) \in UpperChars THEN LowerOfChar[Head(s)] ELSE Head(s)) \o lower(Tail(s))

\* str.isalnum: non-empty and every character alphanumeric
isalnum(s) == s # "" /\ \A i \in 1..Len(s) : IsAlnumChar(Char(s, i))

\* word[0].isupper()
isupper(c) == c \in UpperChars

\* a replacement left in the case of the candidate list
Uncapitalized(s) == s

\* str.capitalize: first character upper-cased, the rest lower-cased
capitalize(s) ==
    IF s = "" THEN ""
    ELSE (IF Head(s) \in LowerChars THEN UpperOfChar[Head(s)] ELSE Head(s)) \o lower(Tail(s))

\* str.strip
RECURSIVE lstrip(_)
lstrip(s) == IF s # "" /\ IsSpaceChar(Head(s)) THEN lstrip(Tail(s)) ELSE s

RECURSIVE rstrip(_)
rstrip(s) ==
    IF s # "" /\ IsSpaceChar(Char(s, Len(s))) THEN rstrip(Mid(s, 1, Len(s) - 1)) ELSE s

strip(s) == rstrip(lstrip(s))

\* index of the first blank of s at or after i, Len(s)+1 when there is none
RECURSIVE NextSpace(_, _)
NextSpace(s, i) ==
    IF i > Len(s) \/ IsSpaceChar(Char(s, i)) THEN i ELSE NextSpace(s, i + 1)

\* str.split(): the maximal blank-free runs, in order
RECURSIVE split(_)
split(s) ==
    LET t == lstrip(s)
        e == NextSpace(t, 1)
    IN  IF t = "" THEN <<>>
        ELSE <<Mid(t, 1, e - 1)>> \o split(Mid(t, e, Len(t)))

\* " ".join(tokens)
RECURSIVE join(_)
join(toks) ==
    IF toks = <<>> THEN ""
    ELSE IF Len(toks) = 1 THEN toks[1]
    ELSE toks[1] \o " " \o join(Tail(toks))

\* index of the first non-blank of s at or after i, Len(s)+1 when there is none
RECURSIVE SkipSpaces(_, _)
SkipSpaces(s, i) ==
    IF i <= Len(s) /\ IsSpaceChar(Char(s, i)) THEN SkipSpaces(s, i + 1) ELSE i

\* re.sub(r"\s+([.,!?;:])", r"\1", s): blanks before a punctuation mark go
RECURSIVE SubSpaceBeforePunct(_)
SubSpaceBeforePunct(s) ==
    IF s = "" THEN ""
    ELSE IF IsSpaceChar(Head(s))
         THEN LET j == SkipSpaces(s, 1)
              IN  IF j <= Len(s) /\ IsPunctChar(Char(s, j))
                  THEN Char(s, j) \o SubSpaceBeforePunct(Mid(s, j + 1, Len(s)))
                  ELSE Mid(s, 1, j - 1) \o SubSpaceBeforePunct(Mid(s, j, Len(s)))
         ELSE Head(s) \o SubSpaceBeforePunct(Tail(s))

\* re.sub(r"([.,!?;:])\s*([.,!?;:])", r"\1\2", s): matches do not overlap
RECURSIVE SubPunctPair(_)
SubPunctPair(s) ==
    IF s = "" THEN ""
    ELSE IF IsPunctChar(Head(s))
         THEN LET j == SkipSpaces(s, 2)
              IN  IF j <= Len(s) /\ IsPunctChar(Char(s, j))
                  THEN Head(s) \o Char(s, j) \o SubPunctPair(Mid(s, j + 1, Len(s)))
                  ELSE Head(s) \o SubPunctPair(Tail(s))
         ELSE Head(s) \o SubPunctPair(Tail(s))

\* re.sub(r"\s+", " ", s).strip()
RECURSIVE CollapseSpaces(_)
CollapseSpaces(s) ==
    IF s = "" THEN ""
    ELSE IF IsSpaceChar(Head(s))
         THEN " " \o CollapseSpaces(Mid(s, SkipSpaces(s, 1), Len(s)))
         ELSE Head(s) \o CollapseSpaces(Tail(s))

\* the three substitutions of the generation loop and of the proof generator
FixPunctuation(s) == strip(CollapseSpaces(SubPunctPair(SubSpaceBeforePunct(s))))

\* the two substitutions of the forced fallback
FixPunctuationFallback(s) == strip(CollapseSpaces(SubSpaceBeforePunct(s)))

(***************************************************************************)
(* The external collaborators, as the code sees them: the tokenizer, the   *)
(* tagger and the lexical source over a small fixed vocabulary.            *)
(***************************************************************************)

\* word_tokenize: blank-separated chunks, every punctuation mark a token of its own
RECURSIVE TokenizeFrom(_, _, _)
TokenizeFrom(s, i, cur) ==
    LET flush == IF cur = "" THEN <<>> ELSE <<cur>>
    IN  IF i > Len(s) THEN flush
        ELSE IF IsSpaceChar(Char(s, i)) THEN flush \o TokenizeFrom(s, i + 1, "")
        ELSE IF IsPunctChar(Char(s, i)) THEN flush \o <<Char(s, i)>> \o TokenizeFrom(s, i + 1, "")
        ELSE TokenizeFrom(s, i + 1, cur \o Char(s, i))

word_tokenize(s) == TokenizeFrom(s, 1, "")

\* the tag the tagger gives a token of the vocabulary (unknown words are nouns)
TagOf(tok) ==
    LET w == lower(tok)
    IN  CASE w \in {"the", "a", "an"} -> "DT"
          [] w \in {"it"} -> "PRP"
          [] w \in {"is"} -> "VBZ"
          [] w \in {"on", "by"} -> "IN"
          [] w \in {"sat", "ran"} -> "VBD"
          [] w \in {"sit", "sprint"} -> "VB"
          [] w \in {"big", "large", "red", "crimson", "sad", "unhappy", "hot", "warm"} -> "JJ"
          [] Len(w) = 1 /\ IsPunctChar(w) -> w
          [] OTHER -> "NN"

\* pos_tag: the (token, tag) pairs, parallel to the tokens
pos_tag(toks) == [i \in 1..Len(toks) |-> <<toks[i], TagOf(toks[i])>>]

\* the sense groups of the lexical source
SynsetIds == {"n1", "n2", "n3", "n4", "n5", "n6", "n7", "n8", "v1", "v2", "a1", "a2", "a3", "a4"}

SynsetPos(id) == Mid(id, 1, 1)

SynsetLemmas(id) ==
    CASE id = "n1" -> <<"cat", "feline", "true_cat">>
      [] id = "n2" -> <<"animal">>
      [] id = "n3" -> <<"dog", "hound">>
      [] id = "n4" -> <<"house", "home", "country_house", "abode", "lodge", "villa", "manor", "cabin">>
      [] id = "n5" -> <<"tree", "sapling">>
      [] id = "n6" -> <<"tree", "tree_diagram">>
      [] id = "n7" -> <<"plant", "flora">>
      [] id = "n8" -> <<"graph", "chart">>
      [] id = "v1" -> <<"sit", "sat">>
      [] id = "v2" -> <<"ran", "sprint">>
      [] id = "a1" -> <<"big", "large">>
      [] id = "a2" -> <<"red", "crimson">>
      [] id = "a3" -> <<"sad", "unhappy">>
      [] id = "a4" -> <<"hot", "warm">>

SynsetHypernyms(id) ==
    CASE id \in {"n1", "n3"} -> <<"n2">>
      [] id = "n5" -> <<"n7">>
      [] id = "n6" -> <<"n8">>
      [] OTHER -> <<>>

SynsetHyponyms(id) ==
    CASE id = "n2" -> <<"n1", "n3">>
      [] id = "n7" -> <<"n5">>
      [] id = "n8" -> <<"n6">>
      [] OTHER -> <<>>

\* wn.synsets(word): the sense groups of a word, most common first
WordIndex(w) ==
    CASE w \in {"cat", "feline"} -> <<"n1">>
      [] w \in {"animal"} -> <<"n2">>
      [] w \in {"dog", "hound"} -> <<"n3">>
      [] w \in {"house"} -> <<"n4">>
      [] w \in {"tree"} -> <<"n5", "n6">>
      [] w \in {"sit", "sat"} -> <<"v1">>
      [] w \in {"ran", "sprint"} -> <<"v2">>
      [] w \in {"big", "large"} -> <<"a1">>
      [] w \in {"red", "crimson"} -> <<"a2">>
      [] w \in {"sad", "unhappy"} -> <<"a3">>
      [] w \in {"hot", "warm"} -> <<"a4">>
      [] OTHER -> <<>>

\* wn.synsets(word, pos): pos "" stands for None (no restriction)
synsets(w, pos) ==
    LET Keep(id) == pos = "" \/ SynsetPos(id) = pos
    IN  SelectSeq(WordIndex(w), Keep)

\* prefix of a sequence: seq[:n]
Take(seq, n) == SubSeq(seq, 1, IF n < Len(seq) THEN n ELSE Len(seq))

Range(seq) == {seq[i] : i \in 1..Len(seq)}

(***************************************************************************)
(* Replacement map builder                                                 *)
(***************************************************************************)
\* tag.startswith(prefix)
StartsWith(s, prefix) == Len(s) >= Len(prefix) /\ Mid(s, 1, Len(prefix)) = prefix

\* str.upper on a tag
RECURSIVE upper(_)
upper(s) ==
    IF s = "" THEN ""
    ELSE (IF Head(s) \in LowerChars THEN UpperOfChar[Head(s)] ELSE Head(s)) \o upper(Tail(s))

\* _map_pos_tag: "" stands for None
_map_pos_tag(tag) ==
    IF tag = "" THEN ""
    ELSE LET t == upper(tag)
         IN  CASE StartsWith(t, "N") -> "n"
               [] StartsWith(t, "V") -> "v"
               [] StartsWith(t, "J") -> "a"
               [] StartsWith(t, "R") -> "r"
               [] OTHER -> ""

\* str.replace(a, b) for single characters
RECURSIVE ReplaceChar(_, _, _)
ReplaceChar(s, a, b) ==
    IF s = "" THEN ""
    ELSE (IF Head(s) = a THEN b ELSE Head(s)) \o ReplaceChar(Tail(s), a, b)

StopWords ==
    {"the", "a", "an", "and", "or", "but", "in", "on", "at", "to", "for",
     "of", "with", "by", "is", "are", "was", "were", "be", "been", "have",
     "has", "had", "do", "does", "did", "will", "would", "could", "should",
     "this", "that", "these", "those", "it", "its", "he", "she", "they"}

MinWordLen == 3

\* _should_replace_word
_should_replace_word(word, tag) ==
    IF word = "" THEN FALSE
    ELSE IF ~isalnum(word) /\ ~isalnum(ReplaceChar(word, "'", "")) THEN FALSE
    ELSE IF Len(word) < MinWordLen THEN FALSE
    ELSE IF lower(word) \in StopWords THEN FALSE
    ELSE IF tag # ""
         THEN \E p \in {"N", "V", "J", "R"} : StartsWith(upper(tag), p)
         ELSE TRUE

MaxSynonyms == 15

\* the test of the first collection pass on one lemma name
TooSimilar(synonym, word_lower) ==
    /\ Take(synonym, 2) = Take(word_lower, 2)
    /\ Len(synonym) - Len(word_lower) \in -1..1

LemmaSynonym(name) == lower(ReplaceChar(name, "_", " "))

\* the lemma names of a sequence of sense groups, in visiting order
RECURSIVE LemmaNamesOf(_)
LemmaNamesOf(ids) ==
    IF ids = <<>> THEN <<>> ELSE SynsetLemmas(ids[1]) \o LemmaNamesOf(Tail(ids))

\* lines 156-166: the lemmas of one sense group, until a lemma that is a single word
\* other than the word itself is met with max_synonyms names in the set (the test
\* follows the add, and is made also when the name was not added)
RECURSIVE CollectLemmas(_, _, _, _)
CollectLemmas(names, word_lower, max_synonyms, acc) ==
    IF names = <<>> THEN acc
    ELSE LET synonym == LemmaSynonym(names[1])
             ok == /\ synonym # word_lower
                   /\ Len(split(synonym)) = 1
             added == IF Len(synonym) >= 2 /\ ~TooSimilar(synonym, word_lower)
                      THEN acc \cup {synonym} ELSE acc
         IN  IF ~ok THEN CollectLemmas(Tail(names), word_lower, max_synonyms, acc)
             ELSE IF Cardinality(added) >= max_synonyms THEN added
             ELSE CollectLemmas(Tail(names), word_lower, max_synonyms, added)

\* first pass, lines 155-168: the given sense groups in turn, until one leaves
\* max_synonyms names in the set
RECURSIVE CollectDirect(_, _, _, _)
CollectDirect(ids, word_lower, max_synonyms, acc) ==
    IF ids = <<>> THEN acc
    ELSE LET after == CollectLemmas(SynsetLemmas(ids[1]), word_lower, max_synonyms, acc)
         IN  IF Cardinality(after) >= max_synonyms THEN after
             ELSE CollectDirect(Tail(ids), word_lower, max_synonyms, after)

\* lines 175-179: the lemmas of one hypernym, until an addition leaves max_synonyms
\* names in the set (the test follows the add, also when the name was there already)
RECURSIVE CollectRelated(_, _, _, _)
CollectRelated(names, word_lower, max_synonyms, acc) ==
    IF names = <<>> THEN acc
    ELSE LET synonym == LemmaSynonym(names[1])
             ok == /\ synonym # word_lower
                   /\ Len(split(synonym)) = 1
                   /\ Len(synonym) >= 3
             added == acc \cup {synonym}
         IN  IF ~ok THEN CollectRelated(Tail(names), word_lower, max_synonyms, acc)
             ELSE IF Cardinality(added) >= max_synonyms THEN added
             ELSE CollectRelated(Tail(names), word_lower, max_synonyms, added)

\* second pass, lines 172-174: the first hypernym of each of the given sense groups in
\* turn; the break of line 179 ends the lemmas of one hypernym only
RECURSIVE CollectHypernyms(_, _, _, _)
CollectHypernyms(ids, word_lower, max_synonyms, acc) ==
    IF ids = <<>> THEN acc
    ELSE CollectHypernyms(Tail(ids), word_lower, max_synonyms,
                          CollectRelated(LemmaNamesOf(Take(SynsetHypernyms(ids[1]), 1)),
                                         word_lower, max_synonyms, acc))

\* the set of synonyms _get_synonyms_for_word collects before list(synonyms)
SynonymSet(word, tag, max_synonyms) ==
    LET word_lower == lower(word)
        Widened(sets, direct) ==
            IF Cardinality(direct) < 3
            THEN CollectHypernyms(Take(sets, 2), word_lower, max_synonyms, direct)
            ELSE direct
        Collected(sets) ==
            IF sets = <<>> THEN {}
            ELSE Widened(sets, CollectDirect(Take(sets, 5), word_lower, max_synonyms, {}))
        Looked(withPos) == Collected(IF withPos # <<>> THEN withPos ELSE synsets(word_lower, ""))
    IN  Looked(IF tag # "" THEN synsets(word_lower, _map_pos_tag(tag)) ELSE <<>>)

InformalWords ==
    {"guy", "kid", "cool", "awesome", "stuff", "thing", "get", "got", "gonna",
     "wanna", "yeah", "yep", "nah", "nope", "huge", "tiny", "big", "small"}

FormalWords ==
    {"individual", "personnel", "utilize", "facilitate", "implement",
     "substantial", "considerable", "significant", "demonstrate", "exhibit"}

\* _get_synonym_formality_score, in twentieths
_get_synonym_formality_score(synonym) ==
    IF lower(synonym) \in InformalWords THEN 4
    ELSE IF lower(synonym) \in FormalWords THEN 18
    ELSE IF 10 + Len(synonym) > 20 THEN 20 ELSE 10 + Len(synonym)

\* a sort that leaves the pairs as they are
KeepOrder(pairs) == pairs

\* list.sort(key=...) on (key, item) pairs: stable, ascending
RECURSIVE InsertAsc(_, _)
InsertAsc(sorted, x) ==
    IF sorted = <<>> THEN <<x>>
    ELSE IF sorted[1][1] <= x[1] THEN <<sorted[1]>> \o InsertAsc(Tail(sorted), x)
    ELSE <<x>> \o sorted

RECURSIVE SortAsc(_)
SortAsc(pairs) ==
    IF pairs = <<>> THEN <<>>
    ELSE InsertAsc(SortAsc(SubSeq(pairs, 1, Len(pairs) - 1)), pairs[Len(pairs)])

\* list.sort(reverse=True, key=...): descending, equal keys keep their order
RECURSIVE InsertDesc(_, _)
InsertDesc(sorted, x) ==
    IF sorted = <<>> THEN <<x>>
    ELSE IF sorted[1][1] >= x[1] THEN <<sorted[1]>> \o InsertDesc(Tail(sorted), x)
    ELSE <<x>> \o sorted

RECURSIVE SortDesc(_)
SortDesc(pairs) ==
    IF pairs = <<>> THEN <<>>
    ELSE InsertDesc(SortDesc(SubSeq(pairs, 1, Len(pairs) - 1)), pairs[Len(pairs)])

\* _filter_synonyms_by_style
_filter_synonyms_by_style(synonyms, style) ==
    LET F(syn) == _get_synonym_formality_score(syn)
        Keyed(K(_)) == [i \in 1..Len(synonyms) |-> <<K(synonyms[i]), synonyms[i]>>]
        Academic(syn) == F(syn) * 100 + Len(syn)
        Simple(syn) == Len(syn) * 100 + F(syn)
        Items(pairs) == [i \in 1..Len(pairs) |-> pairs[i][2]]
    IN  CASE style = "balanced" -> synonyms
          [] style = "formal" -> Items(SortDesc(Keyed(F)))
          [] style = "casual" -> Items(SortAsc(Keyed(F)))
          [] style = "academic" -> Items(SortDesc(Keyed(Academic)))
          [] style = "simple" -> Items(SortAsc(Keyed(Simple)))
          [] OTHER -> synonyms

\* the orders list(synonyms) can give a set (line 181): any order
ListsOf(S) == {q \in [1..Cardinality(S) -> S] : Range(q) = S}

\* _get_synonyms_for_word without the slice of line 187
UnslicedSynonyms(listed, max_synonyms, style) ==
    IF style # "balanced" THEN _filter_synonyms_by_style(listed, style) ELSE listed

\* _get_synonyms_for_word, given the order list(synonyms) produced
_get_synonyms_for_word(listed, max_synonyms, style) ==
    Take(IF style # "balanced" THEN _filter_synonyms_by_style(listed, style) ELSE listed, max_synonyms)

(***************************************************************************)
(* Binary floating point: the float of Python is the IEEE 754 double, and  *)
(* every operation on it gives the double nearest to the exact result      *)
(* (ties to the even mantissa). A double is <<sign, exponent, mantissa>>   *)
(* with value sign * mantissa * 2^exponent; the mantissa is a number of 53 *)
(* bits, held as four limbs of 14 bits, lowest first. The values of this   *)
(* program stay far from the ends of the exponent range, which is not      *)
(* modelled.                                                               *)
(***************************************************************************)
Abs(x) == IF x < 0 THEN -x ELSE x

Smaller(a, b) == IF a < b THEN a ELSE b

Larger(a, b) == IF a > b THEN a ELSE b

\* the base of the limbs
Limb == 2^14

\* a limb sequence without its leading (highest) zero limbs
RECURSIVE BigTrim(_)
BigTrim(a) ==
    IF a = <<>> \/ a[Len(a)] # 0 THEN a ELSE BigTrim(SubSeq(a, 1, Len(a) - 1))

\* the limbs of a sequence of column values, the carry moving upwards
RECURSIVE BigCarry(_, _)
BigCarry(cols, carry) ==
    IF cols = <<>>
    THEN IF carry = 0 THEN <<>> ELSE <<carry % Limb>> \o BigCarry(<<>>, carry \div Limb)
    ELSE <<(cols[1] + carry) % Limb>> \o BigCarry(Tail(cols), (cols[1] + carry) \div Limb)

BigLimb(a, i) == IF i >= 1 /\ i <= Len(a) THEN a[i] ELSE 0

BigOfInt(n) == BigCarry(<<n>>, 0)

\* the value of a number of at most 31 bits
RECURSIVE BigToInt(_)
BigToInt(a) == IF a = <<>> THEN 0 ELSE a[1] + Limb * BigToInt(Tail(a))

BigAdd(a, b) ==
    BigCarry([i \in 1..Larger(Len(a), Len(b)) |-> BigLimb(a, i) + BigLimb(b, i)], 0)

\* a - b for a >= b
BigSub(a, b) == BigTrim(BigCarry([i \in 1..Len(a) |-> a[i] - BigLimb(b, i)], 0))

\* -1, 0, 1 as a < b, a = b, a > b for two numbers of i limbs, from the highest down
RECURSIVE BigCmpFrom(_, _, _)
BigCmpFrom(a, b, i) ==
    IF i = 0 THEN 0
    ELSE IF a[i] # b[i] THEN (IF a[i] < b[i] THEN -1 ELSE 1)
    ELSE BigCmpFrom(a, b, i - 1)

\* -1, 0, 1 as a < b, a = b, a > b (both without leading zero limbs)
BigCmp(a, b) ==
    IF Len(a) # Len(b) THEN (IF Len(a) < Len(b) THEN -1 ELSE 1)
    ELSE BigCmpFrom(a, b, Len(a))

\* a * q for one limb q
BigMulLimb(a, q) == IF q = 0 THEN <<>> ELSE BigCarry([i \in 1..Len(a) |-> a[i] * q], 0)

\* a * b for two mantissas of four limbs: the columns of the products, then the carries
BigMulMantissa(a, b) ==
    BigCarry(<<a[1] * b[1],
               a[1] * b[2] + a[2] * b[1],
               a[1] * b[3] + a[2] * b[2] + a[3] * b[1],
               a[1] * b[4] + a[2] * b[3] + a[3] * b[2] + a[4] * b[1],
               a[2] * b[4] + a[3] * b[3] + a[4] * b[2],
               a[3] * b[4] + a[4] * b[3],
               a[4] * b[4]>>, 0)

\* the number of bits of an integer
RECURSIVE IntBits(_)
IntBits(n) == IF n = 0 THEN 0 ELSE 1 + IntBits(n \div 2)

\* the number of bits of a non-zero number
BigBits(a) == 14 * (Len(a) - 1) + IntBits(a[Len(a)])

\* a * 2^k
BigShl(a, k) ==
    IF a = <<>> THEN <<>>
    ELSE [i \in 1..(k \div 14) |-> 0] \o BigCarry([i \in 1..Len(a) |-> a[i] * 2^(k % 14)], 0)

\* a \div 2^k
BigShr(a, k) ==
    IF k \div 14 >= Len(a) THEN <<>>
    ELSE BigTrim([i \in 1..(Len(a) - k \div 14) |->
                     (a[i + k \div 14] \div 2^(k % 14))
                     + (BigLimb(a, i + k \div 14 + 1) % 2^(k % 14)) * 2^(14 - (k % 14))])

\* bit k of a, the lowest being bit 0
BigBit(a, k) == (BigLimb(a, k \div 14 + 1) \div 2^(k % 14)) % 2

\* some of the k lowest bits of a is set
BigLowBits(a, k) ==
    \/ \E i \in 1..(k \div 14) : BigLimb(a, i) # 0
    \/ BigLimb(a, k \div 14 + 1) % 2^(k % 14) # 0

\* a rounded to the nearest multiple of 2^k, as a number of such multiples: one more
\* than a \div 2^k when the bits dropped are more than a half, or are a half and
\* a \div 2^k is odd; sticky says that the exact value lies above a
BigRoundShr(a, k, sticky) ==
    IF k = 0 THEN a
    ELSE BigAdd(BigShr(a, k),
                IF BigBit(a, k - 1) = 1 /\ (sticky \/ BigLowBits(a, k - 1) \/ BigBit(a, k) = 1)
                THEN <<1>> ELSE <<>>)

Zero == <<0, 0, <<0, 0, 0, 0>>>>

One == <<1, -52, <<0, 0, 0, 1024>>>>

\* the double of a mantissa m rounded to 53 bits: rounding up may have reached 2^53
FPacked(sign, m, e) ==
    IF m[4] = 2048 THEN <<sign, e + 1, <<0, 0, 0, 1024>>>> ELSE <<sign, e, m>>

\* the double nearest to sign * n * 2^e for n of the given number of bits
FNearestOf(sign, n, e, sticky, bits) ==
    IF bits <= 53 THEN <<sign, e - (53 - bits), BigShl(n, 53 - bits)>>
    ELSE FPacked(sign, BigRoundShr(n, bits - 53, sticky), e + (bits - 53))

\* the double nearest to sign * n * 2^e, n a non-zero number; sticky says that the
\* exact value is a little larger in magnitude than n * 2^e
FNearest(sign, n, e, sticky) == FNearestOf(sign, n, e, sticky, BigBits(n))

\* float(n) of an integer below 2^31 in size
FInt(n) == IF n = 0 THEN Zero ELSE FNearest(IF n < 0 THEN -1 ELSE 1, BigOfInt(Abs(n)), 0, FALSE)

FNeg(x) == <<-x[1], x[2], x[3]>>

FMul(x, y) ==
    IF x[1] = 0 \/ y[1] = 0 THEN Zero
    ELSE FNearest(x[1] * y[1], BigMulMantissa(x[3], y[3]), x[2] + y[2], FALSE)

\* sa * a * 2^e + sb * b * 2^e, c comparing a with b
FAddAligned(sa, a, sb, b, e, c) ==
    IF sa # sb /\ c = 0 THEN Zero
    ELSE FNearest(IF sa = sb \/ c > 0 THEN sa ELSE sb,
                  IF sa = sb THEN BigAdd(a, b) ELSE IF c > 0 THEN BigSub(a, b) ELSE BigSub(b, a),
                  e, FALSE)

\* sa * a * 2^e + sb * b * 2^e
FAddShifted(sa, a, sb, b, e) == FAddAligned(sa, a, sb, b, e, BigCmp(a, b))

\* x + y for two non-zero doubles, e the smaller exponent
FAddAt(x, y, e) == FAddShifted(x[1], BigShl(x[3], x[2] - e), y[1], BigShl(y[3], y[2] - e), e)

\* x + y: the exact sum of the two, rounded once
FAdd(x, y) ==
    IF x[1] = 0 THEN y
    ELSE IF y[1] = 0 THEN x
    ELSE FAddAt(x, y, Smaller(x[2], y[2]))

FSub(x, y) == FAdd(x, FNeg(y))

\* the quotient limb q of r by d and the remainder, p being d * q: q is lowered
\* until d * q fits
RECURSIVE DivFit(_, _, _, _)
DivFit(r, d, q, p) ==
    IF BigCmp(p, r) <= 0 THEN <<q, BigSub(r, p)>> ELSE DivFit(r, d, q - 1, BigSub(p, d))

\* one step of the long division of r by d (d of four limbs, its highest at least
\* 2^13; r < d * Limb), from the guess q, which is at most 2 too large
DivTry(r, d, q) == DivFit(r, d, q, BigMulLimb(d, q))

\* the guess comes from the two highest limbs
DivStep(r, d) ==
    DivTry(r, d, Smaller(Limb - 1, (BigLimb(r, 5) * Limb + BigLimb(r, 4)) \div d[4]))

\* the quotient limbs of count steps, lowest first, behind the remainder
RECURSIVE DivLimbs(_, _, _)
RECURSIVE DivNext(_, _, _)
DivNext(step, d, count) == DivLimbs(step[2], d, count - 1) \o <<step[1]>>

DivLimbs(r, d, count) ==
    IF count = 0 THEN <<r>>
    ELSE DivNext(DivStep(IF r = <<>> THEN <<>> ELSE <<0>> \o r, d), d, count)

\* the limbs of a \div d for one limb d, lowest first, behind the remainder; a is
\* given with count limbs, the highest being a[count]
RECURSIVE DivByLimb(_, _, _, _)
DivByLimb(a, d, count, rest) ==
    IF count = 0 THEN <<IF rest = 0 THEN <<>> ELSE <<rest>>>>
    ELSE DivByLimb(a, d, count - 1, (rest * Limb + a[count]) % d)
         \o <<(rest * Limb + a[count]) \div d>>

\* 57 bits of n / d for two mantissas shifted to 56 bits, behind the remainder
DivLong(n, d) ==
    DivLimbs(IF BigCmp(n, d) >= 0 THEN BigSub(n, d) ELSE n, d, 4)
    \o <<IF BigCmp(n, d) >= 0 THEN 1 ELSE 0>>

\* the double of a quotient given as its limbs behind the remainder
FQuotient(sign, limbs, e) == FNearest(sign, BigTrim(Tail(limbs)), e, limbs[1] # <<>>)

\* x / y for y # 0, rounded once. When the mantissa of y has its 11 highest bits only
\* (y is an integer below 2048 times a power of 2), the mantissa of x, two limbs
\* longer, is divided by these; otherwise 57 bits of the quotient are found by long
\* division.
FDiv(x, y) ==
    IF x[1] = 0 THEN Zero
    ELSE IF y[3][1] = 0 /\ y[3][2] = 0 /\ y[3][3] = 0
    THEN FQuotient(x[1] * y[1], DivByLimb(<<0, 0>> \o x[3], y[3][4], 6, 0), x[2] - y[2] - 70)
    ELSE FQuotient(x[1] * y[1], DivLong(BigShl(x[3], 3), BigShl(y[3], 3)), x[2] - y[2] - 56)

\* n / d of two integers, d > 0, and the decimal literal n/d (0.85 is Frac(85, 100))
Frac(n, d) == FDiv(FInt(n), FInt(d))

\* -1, 0, 1 as x < y, x = y, x > y
FCmp(x, y) ==
    IF x[1] # y[1] THEN (IF x[1] < y[1] THEN -1 ELSE 1)
    ELSE IF x[1] = 0 THEN 0
    ELSE IF x[2] # y[2] THEN (IF x[2] < y[2] THEN -x[1] ELSE x[1])
    ELSE x[1] * BigCmp(x[3], y[3])

FLt(a, b) == FCmp(a, b) < 0
FLeq(a, b) == FCmp(a, b) <= 0
FGeq(a, b) == FCmp(a, b) >= 0
FGt(a, b) == FCmp(a, b) > 0

\* min(a, b) and max(a, b) of Python: the first argument unless the second is
\* strictly smaller (larger)
FMin(a, b) == IF FLt(b, a) THEN b ELSE a
FMax(a, b) == IF FGt(b, a) THEN b ELSE a

\* the integer nearest to n * 2^e, ties to even
BigRound(n, e) ==
    IF e >= 0 THEN BigToInt(BigShl(n, e)) ELSE BigToInt(BigRoundShr(n, -e, FALSE))

\* round(x, k) with scale = 10^k, as an integer number of 1/scale: the exact value
\* of the double is rounded, ties to even
FRound(x, scale) ==
    IF x[1] = 0 THEN 0 ELSE x[1] * BigRound(BigMulLimb(x[3], scale), x[2])

(***************************************************************************)
(* Divergence metrics                                                      *)
(***************************************************************************)
\* [w.lower() for w in words if w.isalnum()]
AlnumLowerList(words) ==
    LET kept == SelectSeq(words, isalnum)
    IN  [i \in 1..Len(kept) |-> lower(kept[i])]

\* set(w.lower() for w in words if w.isalnum())
AlnumLowerSet(words) == Range(AlnumLowerList(words))

\* set(get_ngrams(word_list, n))
get_ngrams(word_list, n) ==
    {SubSeq(word_list, i, i + n - 1) : i \in 1..(Len(word_list) - n + 1)}

\* 1 - (len(original_words & new_words) / len(original_words))
WordChangeRate(original_tokens, new_words) ==
    LET Of(ow, nw) == FSub(One, Frac(Cardinality(ow \cap nw), Cardinality(ow)))
    IN  Of(AlnumLowerSet(original_tokens), AlnumLowerSet(new_words))

\* len(original_ngrams & new_ngrams) / len(original_ngrams), original n-grams non-empty
NgramOverlap(original_tokens, new_words, n) ==
    LET Of(og, ng) == Frac(Cardinality(og \cap ng), Cardinality(og))
    IN  Of(get_ngrams(AlnumLowerList(original_tokens), n), get_ngrams(AlnumLowerList(new_words), n))

\* the n-gram change rate of the proof generator: falls back to the word rate
NgramChangeRate(original_tokens, new_words, n) ==
    IF get_ngrams(AlnumLowerList(original_tokens), n) # {}
    THEN FSub(One, NgramOverlap(original_tokens, new_words, n))
    ELSE WordChangeRate(original_tokens, new_words)

(***************************************************************************)
(* Quality scorer and variant statistics                                   *)
(***************************************************************************)
\* the function words the semantic check of the scorer leaves out
ContentStopWords ==
    {"the", "a", "an", "and", "or", "but", "in", "on", "at", "to", "for",
     "of", "with", "by", "is", "are", "was", "were", "be", "been", "have",
     "has", "had", "do", "does", "did", "will", "would", "could", "should"}

\* [s.lower() for s in synonyms]
LowerList(synonyms) == [i \in 1..Len(synonyms) |-> lower(synonyms[i])]

\* list.index(x), counted from 0
IndexOf(seq, x) == (CHOOSE i \in 1..Len(seq) : seq[i] = x /\ \A j \in 1..(i - 1) : seq[j] # x) - 1

\* the positions the scorer counts as verified replacements, in order
ReplacementPositions(original_tokens, variation_tokens, word_replacements) ==
    LET Counts(i) ==
            /\ i <= Len(original_tokens)
            /\ lower(original_tokens[i]) # lower(variation_tokens[i])
            /\ isalnum(variation_tokens[i])
            /\ lower(original_tokens[i]) \in DOMAIN word_replacements
            /\ lower(variation_tokens[i]) \in Range(LowerList(word_replacements[lower(original_tokens[i])]))
    IN  SelectSeq([i \in 1..Len(variation_tokens) |-> i], Counts)

\* the literals 0.8 and 0.6 of the rank bonus
SecondRankBonus == Frac(8, 10)

LowRankBonus == Frac(6, 10)

\* the rank bonus of one verified replacement: 1.0, 0.8 or 0.6
RankBonus(original_token, variation_token, word_replacements) ==
    LET Of(syn_index) == IF syn_index < 3 THEN One ELSE IF syn_index < 5 THEN SecondRankBonus ELSE LowRankBonus
    IN  Of(IndexOf(LowerList(word_replacements[lower(original_token)]), lower(variation_token)))

RECURSIVE SumSeq(_)
SumSeq(seq) == IF seq = <<>> THEN 0 ELSE seq[1] + SumSeq(Tail(seq))

\* the sense groups reachable in one hypernym or hyponym step
RelatedSynsets(ids) ==
    UNION {Range(SynsetHypernyms(id)) \cup Range(SynsetHyponyms(id)) : id \in ids}

\* the credit of one replacement in the semantic check, in halves; -1 when unchecked
SemanticCredit(orig_word, var_word) ==
    LET Related(orig_synsets, var_synsets, orig_hypernyms, var_hypernyms) ==
            IF \/ orig_hypernyms \cap var_hypernyms # {}
               \/ orig_hypernyms \cap var_synsets # {}
               \/ var_hypernyms \cap orig_synsets # {}
            THEN 1
            ELSE 0
        Of(orig_synsets, var_synsets) ==
            IF orig_synsets = {} \/ var_synsets = {} THEN -1
            ELSE IF orig_synsets \cap var_synsets # {} THEN 2
            ELSE Related(orig_synsets, var_synsets, RelatedSynsets(orig_synsets), RelatedSynsets(var_synsets))
    IN  Of(Range(synsets(orig_word, "")), Range(synsets(var_word, "")))

\* the weights 0.20, 0.25 and 0.05 of the final score
FifthWeight == Frac(20, 100)

QuarterWeight == Frac(25, 100)

SmallWeight == Frac(5, 100)

\* the weighted sum of the six components, added from left to right, before the count
\* adjustment
WeightedScore(overlap_score, replacement_score, synonym_quality_score, semantic_score, length_score, word_count_score) ==
    FAdd(FAdd(FAdd(FAdd(FAdd(FMul(overlap_score, FifthWeight),
                             FMul(replacement_score, QuarterWeight)),
                        FMul(synonym_quality_score, QuarterWeight)),
                   FMul(semantic_score, FifthWeight)),
              FMul(length_score, SmallWeight)),
         FMul(word_count_score, SmallWeight))

\* the literals 0.2, 0.7 and 0.3 of the replacement score
RatioLow == Frac(2, 10)

RatioHigh == Frac(7, 10)

RatioSpan == Frac(3, 10)

\* replacement_score
ReplacementScore(replacements_count, replaceable_count) ==
    LET Of(replacement_ratio) ==
            IF FLt(replacement_ratio, RatioLow) THEN FDiv(replacement_ratio, RatioLow)
            ELSE IF FGt(replacement_ratio, RatioHigh)
                 THEN FSub(One, FDiv(FSub(replacement_ratio, RatioHigh), RatioSpan))
                 ELSE One
    IN  IF replaceable_count > 0
        THEN Of(Frac(replacements_count, replaceable_count))
        ELSE IF replacements_count > 0 THEN One ELSE Zero

\* the literals 0.3, 0.85 and 0.15 of the overlap score
OverlapLow == Frac(3, 10)

OverlapHigh == Frac(85, 100)

OverlapSpan == Frac(15, 100)

\* overlap_score
OverlapScore(overlap) ==
    IF FLt(overlap, OverlapLow) THEN FDiv(overlap, OverlapLow)
    ELSE IF FGt(overlap, OverlapHigh) THEN FSub(One, FDiv(FSub(overlap, OverlapHigh), OverlapSpan))
    ELSE One

\* replaceable_count
ReplaceableCount(original_tokens, word_replacements) ==
    Cardinality({i \in 1..Len(original_tokens) :
                    isalnum(original_tokens[i]) /\ lower(original_tokens[i]) \in DOMAIN word_replacements})

\* synonym_quality_score += bonus, for the bonuses in order
RECURSIVE AddBonuses(_, _)
AddBonuses(bonuses, sum) ==
    IF bonuses = <<>> THEN sum ELSE AddBonuses(Tail(bonuses), FAdd(sum, bonuses[1]))

\* synonym_quality_score, from the positions of the verified replacements
SynonymQualityScore(original_tokens, variation_tokens, word_replacements, positions) ==
    IF Len(positions) > 0
    THEN FDiv(AddBonuses([k \in 1..Len(positions) |->
                            RankBonus(original_tokens[positions[k]], variation_tokens[positions[k]],
                                      word_replacements)], Zero),
              FInt(Len(positions)))
    ELSE Zero

\* semantic_score; lexicon_up is FALSE when the lexical source raises inside the
\* semantic check, whose try block then leaves the score at 1.0. shared_synsets is a
\* sum of 1 and 0.5, here counted in halves (such a sum is exact).
SemanticScore(original_tokens, variation_tokens, original_words, variation_words, positions, lexicon_up) ==
    LET Of(checked) ==
            IF /\ lexicon_up
               /\ original_words \ ContentStopWords # {}
               /\ variation_words \ ContentStopWords # {}
               /\ Len(checked) > 0
            THEN FDiv(Frac(SumSeq(checked), 2), FInt(Len(checked)))
            ELSE One
    IN  Of(SelectSeq([k \in 1..Len(positions) |->
                        SemanticCredit(lower(original_tokens[positions[k]]), lower(variation_tokens[positions[k]]))],
                     LAMBDA c : c >= 0))

\* the literals 0.5, 0.7 and 1.3 of the length score
Half == Frac(5, 10)

LengthLow == Frac(7, 10)

LengthHigh == Frac(13, 10)

\* length_score
LengthScore(original, variation) ==
    LET Of(length_ratio) ==
            IF FLt(length_ratio, LengthLow) \/ FGt(length_ratio, LengthHigh) THEN Half ELSE One
    IN  Of(IF Len(original) > 0 THEN Frac(Len(variation), Len(original)) ELSE One)

\* word_count_score
WordCountScore(original_count, variation_count) ==
    FMax(Zero, FSub(One, FMul(Frac(Abs(original_count - variation_count),
                                   IF original_count > 1 THEN original_count ELSE 1),
                              Half)))

\* the factors 1.1 and 0.3 of the count adjustment
BonusFactor == Frac(11, 10)

PenaltyFactor == Frac(3, 10)

\* the adjustment of the weighted sum by the number of replacements
AdjustedScore(weighted, replacements_count) ==
    IF replacements_count >= 2 /\ replacements_count <= 5 THEN FMul(weighted, BonusFactor)
    ELSE IF replacements_count = 0 THEN FMul(weighted, PenaltyFactor)
    ELSE weighted

\* _calculate_variation_score, with the lexical source up or down
ScoreWith(original, variation, original_tokens, variation_tokens, word_replacements, tagged, lexicon_up) ==
    LET Scored(original_words, variation_words, positions) ==
            AdjustedScore(
                WeightedScore(
                    OverlapScore(Frac(Cardinality(original_words \cap variation_words), Cardinality(original_words))),
                    ReplacementScore(Len(positions), ReplaceableCount(original_tokens, word_replacements)),
                    SynonymQualityScore(original_tokens, variation_tokens, word_replacements, positions),
                    SemanticScore(original_tokens, variation_tokens, original_words, variation_words,
                                  positions, lexicon_up),
                    LengthScore(original, variation),
                    WordCountScore(Cardinality(original_words), Cardinality(variation_words))),
                Len(positions))
        Of(original_words) ==
            IF original_words = {} THEN Zero
            ELSE FMin(One, Scored(original_words, AlnumLowerSet(variation_tokens),
                                  ReplacementPositions(original_tokens, variation_tokens, word_replacements)))
    IN  IF variation = "" \/ lower(variation) = lower(original) THEN Zero
        ELSE Of(AlnumLowerSet(original_tokens))

_calculate_variation_score(original, variation, original_tokens, variation_tokens, word_replacements, tagged) ==
    ScoreWith(original, variation, original_tokens, variation_tokens, word_replacements, tagged, TRUE)

\* _calculate_variation_stats; the two percentages are kept in tenths of a percent
_calculate_variation_stats(original, variation, original_tokens, variation_tokens, word_replacements) ==
    LET shorter == IF Len(original_tokens) < Len(variation_tokens) THEN Len(original_tokens) ELSE Len(variation_tokens)
        Changed(i) ==
            /\ lower(original_tokens[i]) # lower(variation_tokens[i])
            /\ isalnum(original_tokens[i]) /\ isalnum(variation_tokens[i])
        Stats(original_words, variation_words, changed) ==
            [similarity_percent |->
                IF Cardinality(original_words) > 0
                THEN FRound(FMul(Frac(Cardinality(original_words \cap variation_words),
                                      Cardinality(original_words)), FInt(100)), 10)
                ELSE 0,
             word_changes |-> Len(changed),
             changed_words |-> [k \in 1..Len(changed) |->
                                   [from |-> original_tokens[changed[k]], to |-> variation_tokens[changed[k]]]],
             length_diff |-> Len(variation) - Len(original),
             length_percent |-> IF Len(original) > 0
                                THEN FRound(FMul(Frac(Len(variation) - Len(original), Len(original)),
                                                 FInt(100)), 10)
                                ELSE 0,
             original_length |-> Len(original),
             variation_length |-> Len(variation)]
    IN  Stats(AlnumLowerSet(original_tokens), AlnumLowerSet(variation_tokens),
              SelectSeq([i \in 1..shorter |-> i], Changed))

(***************************************************************************)
(* Structural rewriter: the regular expressions of the proof generator,    *)
(* matched on the characters of the text                                   *)
(***************************************************************************)
\* end (exclusive) of the run of \w characters that holds position i
RECURSIVE RunEnd(_, _)
RunEnd(s, i) == IF i <= Len(s) /\ IsWordChar(Char(s, i)) THEN RunEnd(s, i + 1) ELSE i

WordCharAt(s, i) == i >= 1 /\ i <= Len(s) /\ IsWordChar(Char(s, i))

\* \b at position p (between the characters p-1 and p)
Boundary(s, p) == WordCharAt(s, p - 1) # WordCharAt(s, p)

\* up to k runs of \w+ from position start on, separated by \s+ only: (begin, end) pairs
RECURSIVE NextWords(_, _, _)
NextWords(s, start, k) ==
    IF k = 0 \/ ~WordCharAt(s, start) THEN <<>>
    ELSE LET e == RunEnd(s, start)
             sp == SkipSpaces(s, e)
         IN  <<<<start, e>>>> \o (IF sp > e THEN NextWords(s, sp, k - 1) ELSE <<>>)

Span(s, w) == Mid(s, w[1], w[2] - 1)

EndsWith(s, suffix) == Len(s) >= Len(suffix) /\ Mid(s, Len(s) - Len(suffix) + 1, Len(s)) = suffix

\* \w+ly and \w+ed on a whole run
IsLyWord(w) == Len(w) >= 3 /\ EndsWith(lower(w), "ly")
IsEdWord(w) == Len(w) >= 3 /\ EndsWith(lower(w), "ed")

BeForms == {"is", "are", "was", "were"}
Intensifiers == {"very", "quite", "rather", "extremely"}
Prepositions == {"in", "on", "at", "by", "with", "for", "to", "from", "of", "about", "under", "over"}

NoMatch == <<>>

\* (\w+)\s+(is|are|was|were)\s+(\w+ed)\s+by\s+(\w+) from position q on
PassiveTail(s, q) ==
    LET Of(ws) ==
            IF /\ Len(ws) = 5
               /\ lower(Span(s, ws[2])) \in BeForms
               /\ IsEdWord(Span(s, ws[3]))
               /\ lower(Span(s, ws[4])) = "by"
            THEN <<ws[5][2], Span(s, ws[5]) \o " " \o Span(s, ws[3]) \o " " \o Span(s, ws[1])>>
            ELSE NoMatch
    IN  Of(NextWords(s, q, 5))

\* \b(the|a|an)?\s*(\w+)\s+(is|are|was|were)\s+(\w+ed)\s+by\s+(\w+) -> \5 \4 \2
\* the optional article is tried as "the", "a", "an", and then left out
Articles == <<"the", "a", "an", "">>

RECURSIVE PassiveWith(_, _, _)
PassiveWith(s, p, articles) ==
    IF articles = <<>> THEN NoMatch
    ELSE LET article == articles[1]
             Of(m) == IF m # NoMatch THEN m ELSE PassiveWith(s, p, Tail(articles))
         IN  Of(IF lower(Mid(s, p, p + Len(article) - 1)) = article
                THEN PassiveTail(s, SkipSpaces(s, p + Len(article)))
                ELSE NoMatch)

PassiveMatchAt(s, p) == IF ~Boundary(s, p) THEN NoMatch ELSE PassiveWith(s, p, Articles)

\* \b(is|are|was|were)\s+(\w+ed)\s+by\s+(\w+) -> \3 \2
AgentMatchAt(s, p) ==
    LET Of(ws) ==
            IF /\ Boundary(s, p)
               /\ Len(ws) = 4
               /\ lower(Span(s, ws[1])) \in BeForms
               /\ IsEdWord(Span(s, ws[2]))
               /\ lower(Span(s, ws[3])) = "by"
            THEN <<ws[4][2], Span(s, ws[4]) \o " " \o Span(s, ws[2])>>
            ELSE NoMatch
    IN  Of(NextWords(s, p, 4))

\* \b(\w+)\s+(\w+ly)\s+(\w+) -> \1 \3 \2
AdverbMatchAt(s, p) ==
    LET Of(ws) ==
            IF Boundary(s, p) /\ Len(ws) = 3 /\ IsLyWord(Span(s, ws[2]))
            THEN <<ws[3][2], Span(s, ws[1]) \o " " \o Span(s, ws[3]) \o " " \o Span(s, ws[2])>>
            ELSE NoMatch
    IN  Of(NextWords(s, p, 3))

\* \b(is|are|was|were)\s+(\w+ly)\s+(\w+) -> \3 \2
BeAdverbMatchAt(s, p) ==
    LET Of(ws) ==
            IF /\ Boundary(s, p) /\ Len(ws) = 3
               /\ lower(Span(s, ws[1])) \in BeForms
               /\ IsLyWord(Span(s, ws[2]))
            THEN <<ws[3][2], Span(s, ws[3]) \o " " \o Span(s, ws[2])>>
            ELSE NoMatch
    IN  Of(NextWords(s, p, 3))

\* \b(very|quite|rather|extremely)\s+(\w+)\s+(\w+) -> \3 \2
IntensifierMatchAt(s, p) ==
    LET Of(ws) ==
            IF Boundary(s, p) /\ Len(ws) = 3 /\ lower(Span(s, ws[1])) \in Intensifiers
            THEN <<ws[3][2], Span(s, ws[3]) \o " " \o Span(s, ws[2])>>
            ELSE NoMatch
    IN  Of(NextWords(s, p, 3))

\* \b(it|this|that)\s+is\s+ -> "this demonstrates "
PronounIsMatchAt(s, p) ==
    LET Of(ws) ==
            IF /\ Boundary(s, p) /\ Len(ws) = 2
               /\ lower(Span(s, ws[1])) \in {"it", "this", "that"}
               /\ lower(Span(s, ws[2])) = "is"
               /\ SkipSpaces(s, ws[2][2]) > ws[2][2]
            THEN <<SkipSpaces(s, ws[2][2]), "this demonstrates ">>
            ELSE NoMatch
    IN  Of(NextWords(s, p, 2))

\* \b(\w+)\s+(\w+)\s+(in|on|...|over)\s+(\w+(?:\s+\w+){0,3}) -> verb prep phrase noun
PrepMatchAt(s, p) ==
    LET Of(ws) ==
            IF Boundary(s, p) /\ Len(ws) >= 4 /\ lower(Span(s, ws[3])) \in Prepositions
            THEN <<ws[Len(ws)][2], Span(s, ws[1]) \o " " \o Span(s, ws[3]) \o " "
                        \o Mid(s, ws[4][1], ws[Len(ws)][2] - 1) \o " " \o Span(s, ws[2])>>
            ELSE NoMatch
    IN  Of(NextWords(s, p, 7))

\* ^(words)\s+ : the text starts with one of the words, blanks after it
LeadingWordEnd(s, words) ==
    LET Of(ws) ==
            IF /\ Len(ws) = 1 /\ lower(Span(s, ws[1])) \in words
               /\ SkipSpaces(s, ws[1][2]) > ws[1][2]
            THEN SkipSpaces(s, ws[1][2])
            ELSE 0
    IN  Of(NextWords(s, 1, 1))

\* the match of one of the patterns at position p, by pattern number
PatternMatchAt(k, s, p) ==
    CASE k = 1 -> PassiveMatchAt(s, p)
      [] k = 2 -> AgentMatchAt(s, p)
      [] k = 3 -> AdverbMatchAt(s, p)
      [] k = 4 -> BeAdverbMatchAt(s, p)
      [] k = 5 -> IntensifierMatchAt(s, p)
      [] k = 6 -> PronounIsMatchAt(s, p)
      [] k = 7 -> PrepMatchAt(s, p)

\* the leftmost match from position p on: <<start, end, replacement>>, or NoMatch
RECURSIVE SearchFrom(_, _, _)
SearchFrom(k, s, p) ==
    IF p > Len(s) + 1 THEN NoMatch
    ELSE LET Of(m) == IF m # NoMatch THEN <<p, m[1], m[2]>> ELSE SearchFrom(k, s, p + 1)
         IN  Of(PatternMatchAt(k, s, p))

\* re.search(pattern, s)
search(k, s) == SearchFrom(k, s, 1)

Matches(k, s) == search(k, s) # NoMatch

\* the text with the match m replaced
Replaced(s, m) == IF m = NoMatch THEN s ELSE Mid(s, 1, m[1] - 1) \o m[3] \o Mid(s, m[2], Len(s))

\* re.sub(pattern, replacement, s, count=1): the leftmost match is replaced
SubFirst(k, s) == Replaced(s, search(k, s))

StructuralPatterns == 6

\* a loop over the patterns that applies none
NoStructuralChange(s, k) == s

\* the loop over structural_changes[:6]: the first pattern that matches is applied
RECURSIVE ApplyStructuralChanges(_, _)
ApplyStructuralChanges(s, k) ==
    IF k > StructuralPatterns THEN s
    ELSE LET Of(m) == IF m # NoMatch THEN Replaced(s, m) ELSE ApplyStructuralChanges(s, k + 1)
         IN  Of(search(k, s))

\* the texts the sentence-starter substitution can give
ReplaceStarter(s) ==
    LET Of(e) == IF e = 0 THEN {s}
                 ELSE {w \o " " \o Mid(s, e, Len(s)) : w \in {"this", "such", "one"}}
    IN  Of(LeadingWordEnd(s, {"the", "a", "an"}))

\* the leading-pronoun substitution
ReplacePronoun(s) ==
    LET Of(e) == IF e = 0 THEN s ELSE "the aforementioned " \o Mid(s, e, Len(s))
    IN  Of(LeadingWordEnd(s, {"this", "that", "it"}))

Transitions == {"Furthermore,", "Additionally,", "Moreover,", "Notably,", "Specifically,"}

\* the texts the transition-word step can give
AddTransition(s) ==
    IF (LET Of(words) == Len(words) > 6 /\ (~isupper(Head(s)) \/ words[1] \notin Transitions)
        IN  Of(split(s)))
    THEN {s} \cup (IF Len(s) > 1
                   THEN {t \o " " \o lower(Head(s)) \o Tail(s) : t \in Transitions}
                   ELSE {s})
    ELSE {s}

\* the prepositional-phrase step: searched in the text as it was before the changes
MovePrepPhrase(s, sentence_lower) == IF Matches(7, sentence_lower) THEN SubFirst(7, s) ELSE s

\* _rearrange_sentence_structure
_rearrange_sentence_structure(toks, tg) ==
    LET n == IF Len(toks) < Len(tg) THEN Len(toks) ELSE Len(tg)
        Tagged(prefix) == SelectSeq([i \in 1..n |-> i], LAMBDA i : StartsWith(upper(tg[i][2]), prefix))
        Swapped(adjectives) ==
            IF /\ Len(adjectives) >= 2 /\ Len(toks) > 5
               /\ Abs(adjectives[1] - adjectives[2]) > 1
            THEN [toks EXCEPT ![adjectives[1]] = toks[adjectives[2]], ![adjectives[2]] = toks[adjectives[1]]]
            ELSE toks
        Moved(swapped, adverbs, nouns) ==
            IF /\ Len(adverbs) >= 1 /\ Len(nouns) >= 1 /\ Len(swapped) > 3
               /\ adverbs[1] > 1 /\ adverbs[1] < Len(swapped)
            THEN SubSeq(swapped, 1, adverbs[1] - 1) \o SubSeq(swapped, adverbs[1] + 1, Len(swapped))
                    \o <<swapped[adverbs[1]]>>
            ELSE swapped
    IN  IF Len(toks) < 4 THEN toks
        ELSE Moved(Swapped(Tagged("JJ")), Tagged("RB"), Tagged("NN"))

(***************************************************************************)
(* Candidate generation                                                    *)
(***************************************************************************)
\* seq[:n] of Python, n of either sign
PySlice(seq, n) ==
    IF n >= 0 THEN Take(seq, n)
    ELSE IF Len(seq) + n > 0 THEN Take(seq, Len(seq) + n) ELSE <<>>

\* a draw from the whole candidate list
AnyChoice(synonyms) == Range(synonyms)

\* the candidates the aggressive branch draws from: the least common ones
AggressiveChoices(synonyms) ==
    LET n == Len(synonyms)
        a == n - n \div 3
        b == n \div 2
        start_idx == IF a > b THEN a ELSE b
    IN  IF n > 3 THEN {synonyms[i + 1] : i \in start_idx..(n - 1)}
        ELSE IF n > 1 THEN {synonyms[n]}
        ELSE {synonyms[1]}

\* the candidates one replacement is drawn from
ReplacementChoices(synonyms, aggressive) ==
    IF aggressive THEN AggressiveChoices(synonyms) ELSE Range(synonyms)

\* the values max(1, int(n * random.uniform(0.85, 0.95))) can take
AggressiveCounts(n) ==
    LET lo == (85 * n) \div 100
        hi == (95 * n) \div 100
    IN  {IF k < 1 THEN 1 ELSE k : k \in lo..hi}

\* the values min(n, random.randint(1, n)) can take
StandardCounts(n) == 1..n

\* random.sample(replaceable_words, k): the entries drawn, in list order
Samples(replaceable_words, counts) ==
    LET n == Len(replaceable_words)
        Entries(P) == SelectSeq(replaceable_words, LAMBDA rw : rw \in {replaceable_words[i] : i \in P})
    IN  {Entries(P) : P \in {Q \in SUBSET (1..n) : \E k \in counts : Cardinality(Q) = (IF k < n THEN k ELSE n)}}

\* the token lists the replacement loop can build from the drawn entries
RECURSIVE Substitute(_, _, _, _)
Substitute(toks, words_to_replace, word_replacements, aggressive) ==
    IF words_to_replace = <<>> THEN {toks}
    ELSE LET idx == words_to_replace[1][1]
             word == words_to_replace[1][2]
             word_lower == lower(word)
             Cased(r) == IF word # "" /\ isupper(Head(word)) THEN capitalize(r) ELSE r
         IN  IF word_lower \in DOMAIN word_replacements /\ word_replacements[word_lower] # <<>>
             THEN UNION {Substitute([toks EXCEPT ![idx + 1] = Cased(r)], Tail(words_to_replace),
                                    word_replacements, aggressive) :
                            r \in ReplacementChoices(word_replacements[word_lower], aggressive)}
             ELSE Substitute(toks, Tail(words_to_replace), word_replacements, aggressive)

\* replacements_made of one attempt
ReplacementsMade(words_to_replace, word_replacements) ==
    Len(SelectSeq(words_to_replace,
                  LAMBDA rw : lower(rw[2]) \in DOMAIN word_replacements /\ word_replacements[lower(rw[2])] # <<>>))

MinWordChange == Frac(70, 100)
MaxBigramOverlap == Frac(55, 100)

\* a loop test that looks at the 2-grams only
LoopRejectsOnBigrams(tokens, variation) ==
    /\ AlnumLowerSet(tokens) # {}
    /\ get_ngrams(AlnumLowerList(tokens), 2) # {}
    /\ FGt(NgramOverlap(tokens, split(variation), 2), MaxBigramOverlap)

\* an anti-detection test that skips no attempt
LoopRejectsNothing(tokens, variation) == FALSE

\* the anti-detection test of the generation loop: TRUE when the attempt is skipped
LoopRejects(tokens, variation) ==
    LET var_words == split(variation)
    IN  /\ AlnumLowerSet(tokens) # {}
        /\ \/ FLt(WordChangeRate(tokens, var_words), MinWordChange)
           \/ /\ get_ngrams(AlnumLowerList(tokens), 2) # {}
              /\ FGt(NgramOverlap(tokens, var_words, 2), MaxBigramOverlap)

\* an optional string: None, or Some(text)
None == <<>>

Some(x) == <<x>>

MinBigramChange == Frac(60, 100)

MinTrigramChange == Frac(50, 100)

MinCombinedChange == Frac(65, 100)

FallbackWordChange == Frac(75, 100)

\* the weights 0.4 and 0.3 of the combined change rate
WordRateWeight == Frac(4, 10)

NgramRateWeight == Frac(3, 10)

\* combined_change_rate
CombinedChangeRate(word_rate, bigram_rate, trigram_rate) ==
    FAdd(FAdd(FMul(word_rate, WordRateWeight), FMul(bigram_rate, NgramRateWeight)),
         FMul(trigram_rate, NgramRateWeight))

\* the acceptance test that ends _create_turnitin_proof_paraphrase
ProofGate(original, tokens, sentence_text) ==
    LET Gate(differs, word_change_rate, bigram_change_rate, trigram_change_rate) ==
            IF /\ FGeq(word_change_rate, MinWordChange)
               /\ FGeq(bigram_change_rate, MinBigramChange)
               /\ FGeq(trigram_change_rate, MinTrigramChange)
               /\ FGeq(CombinedChangeRate(word_change_rate, bigram_change_rate, trigram_change_rate),
                       MinCombinedChange)
               /\ differs
               /\ Len(sentence_text) > 0
            THEN Some(sentence_text)
            ELSE IF FGeq(word_change_rate, FallbackWordChange) /\ differs
                 THEN Some(sentence_text)
            ELSE None
        Rates(new_words) ==
            Gate(lower(sentence_text) # lower(original),
                 WordChangeRate(tokens, new_words),
                 NgramChangeRate(tokens, new_words, 2),
                 NgramChangeRate(tokens, new_words, 3))
    IN  IF AlnumLowerSet(tokens) = {} THEN None ELSE Rates(split(sentence_text))

\* the texts strategies 2 to 5 and the punctuation fix can make of one token list
RewrittenTexts(new_tokens, tagged) ==
    LET Of(sentence_text) ==
            {FixPunctuation(MovePrepPhrase(with_transition, lower(sentence_text))) :
                with_transition \in UNION {AddTransition(ReplacePronoun(started)) :
                    started \in ReplaceStarter(ApplyStructuralChanges(sentence_text, 1))}}
    IN  Of(join(_rearrange_sentence_structure(new_tokens, tagged)))

\* _create_turnitin_proof_paraphrase: the values one call can return
_create_turnitin_proof_paraphrase(original, tokens, tagged, word_replacements, replaceable_words) ==
    IF replaceable_words = <<>> THEN {None}
    ELSE {ProofGate(original, tokens, text) :
            text \in UNION {RewrittenTexts(new_tokens, tagged) :
                new_tokens \in UNION {Substitute(tokens, words_to_replace, word_replacements, TRUE) :
                    words_to_replace \in Samples(replaceable_words, AggressiveCounts(Len(replaceable_words)))}}}

(***************************************************************************)
(* Character order and sorted() on lists of strings                        *)
(***************************************************************************)
AsciiOrder == " !',.0123456789:;?ABCDEFGHIJKLMNOPQRSTUVWXYZ_abcdefghijklmnopqrstuvwxyz"

CharOrd(c) == CHOOSE i \in 1..Len(AsciiOrder) : Char(AsciiOrder, i) = c

RECURSIVE StrLeq(_, _)
StrLeq(a, b) ==
    IF a = "" THEN TRUE
    ELSE IF b = "" THEN FALSE
    ELSE IF Head(a) = Head(b) THEN StrLeq(Tail(a), Tail(b))
    ELSE CharOrd(Head(a)) < CharOrd(Head(b))

RECURSIVE InsertStr(_, _)
InsertStr(sorted, x) ==
    IF sorted = <<>> THEN <<x>>
    ELSE IF StrLeq(sorted[1], x) THEN <<sorted[1]>> \o InsertStr(Tail(sorted), x)
    ELSE <<x>> \o sorted

RECURSIVE sorted(_)
sorted(seq) ==
    IF seq = <<>> THEN <<>> ELSE InsertStr(sorted(SubSeq(seq, 1, Len(seq) - 1)), seq[Len(seq)])

(***************************************************************************)
(* Orchestrator: paraphrase_sentence as a state machine                    *)
(***************************************************************************)
MaxNumVariations == 2

AttemptFactor == 5

NumVariationsRange == (-1)..MaxNumVariations

Styles == {"balanced", "formal"}

LengthPreferences == {"same", "shorter", "longer"}

Sentences == {"", "  ", "It is.", "It sat.", "The zap.", "The cat sat.", "The feline sat."}

\* a ten-word sentence with seven eligible words, submitted in aggressive mode
LongSentence == "is is big big is sad hot sat ran red"

\* a sentence of four eligible words, two with shorter and two with longer synonyms,
\* submitted in aggressive mode with a length preference
MixedSentence == "large unhappy cat red"

VARIABLES
    sentence, num_variations, style, length_preference, anti_detection,
    pc, original, tokens, tagged, word_replacements, replaceable_words,
    variations, seen_variations, turnitin_proof, variation_num, generated, result,
    failure, score_call, score_value, filter_call, filter_value, replaced_tokens,
    structural_call, structural_value, bulk, synonyms_call, synonyms_value

vars == <<sentence, num_variations, style, length_preference, anti_detection,
          pc, original, tokens, tagged, word_replacements, replaceable_words,
          variations, seen_variations, turnitin_proof, variation_num, generated, result,
          failure, score_call, score_value, filter_call, filter_value, replaced_tokens,
          structural_call, structural_value, bulk, synonyms_call, synonyms_value>>

\* the arguments and the value of a direct call of the scorer
scorer == <<score_call, score_value, filter_call, filter_value, replaced_tokens,
            structural_call, structural_value, bulk, synonyms_call, synonyms_value>>

inputs == <<sentence, num_variations, style, length_preference, anti_detection>>

locals == <<original, tokens, tagged, word_replacements, replaceable_words,
            variations, seen_variations, turnitin_proof, variation_num, generated>>

EmptyMap == <<>>

\* the locals of paraphrase_sentence before the call
Fresh ==
    /\ original = ""
    /\ tokens = <<>>
    /\ tagged = <<>>
    /\ word_replacements = EmptyMap
    /\ replaceable_words = <<>>
    /\ variations = <<>>
    /\ seen_variations = {}
    /\ turnitin_proof = None
    /\ variation_num = 0
    /\ generated = <<>>
    /\ result = <<>>

Init ==
    /\ \/ /\ sentence \in Sentences
          /\ num_variations \in NumVariationsRange
          /\ style \in Styles
          /\ length_preference \in LengthPreferences
          /\ anti_detection \in BOOLEAN
       \/ /\ sentence = LongSentence
          /\ num_variations = 1
          /\ style = "balanced"
          /\ length_preference = "same"
          /\ anti_detection = TRUE
       \/ /\ sentence = MixedSentence
          /\ num_variations = 2
          /\ style = "balanced"
          /\ length_preference \in {"shorter", "longer"}
          /\ anti_detection = TRUE
    /\ pc = "start"
    /\ Fresh
    /\ failure = "none"
    /\ score_call = None
    /\ score_value = None
    /\ filter_call = None
    /\ filter_value = None
    /\ replaced_tokens = None
    /\ structural_call = None
    /\ structural_value = None
    /\ bulk = None
    /\ synonyms_call = None
    /\ synonyms_value = None

\* statistics that always report the score 0
WithZeroScore(stats, score) ==
    [similarity_percent |-> stats.similarity_percent,
     word_changes |-> stats.word_changes,
     changed_words |-> stats.changed_words,
     length_diff |-> stats.length_diff,
     length_percent |-> stats.length_percent,
     original_length |-> stats.original_length,
     variation_length |-> stats.variation_length,
     score |-> 0]

\* a stats dictionary with its "score" entry (in thousandths)
WithScore(stats, score) ==
    [similarity_percent |-> stats.similarity_percent,
     word_changes |-> stats.word_changes,
     changed_words |-> stats.changed_words,
     length_diff |-> stats.length_diff,
     length_percent |-> stats.length_percent,
     original_length |-> stats.original_length,
     variation_length |-> stats.variation_length,
     score |-> score]

\* the result of the empty-input return
EmptyResult ==
    [original |-> "", variations |-> <<>>, variation_stats |-> <<>>,
     best_variation |-> "", best_score |-> 0, word_replacements |-> EmptyMap]

\* a degraded result that carries no variation at all
ResultWithoutVariations(stats) ==
    [original |-> original, variations |-> <<>>, variation_stats |-> <<>>,
     best_variation |-> original, best_score |-> 0,
     style |-> style, length_preference |-> length_preference, word_replacements |-> EmptyMap]

\* the result of the no-synonym return and of the exception handler
DegradedResult(stats) ==
    [original |-> original, variations |-> <<original>>, variation_stats |-> <<stats>>,
     best_variation |-> original, best_score |-> 0,
     style |-> style, length_preference |-> length_preference, word_replacements |-> EmptyMap]

\* a test that takes only the empty string for empty
IsEmptyText(s) == s = ""

\* not sentence or not sentence.strip()
IsBlank(s) == s = "" \/ strip(s) = ""

\* lines 702-712: the empty-input return, else original = sentence.strip()
Start ==
    /\ pc = "start"
    /\ IF IsBlank(sentence)
       THEN /\ result' = EmptyResult
            /\ pc' = "done"
            /\ UNCHANGED original
       ELSE /\ original' = strip(sentence)
            /\ pc' = "tokenize"
            /\ UNCHANGED result
    /\ UNCHANGED <<inputs, scorer, failure, tokens, tagged, word_replacements, replaceable_words,
                   variations, seen_variations, turnitin_proof, variation_num, generated>>

\* lines 716-717
TokenizeTag ==
    /\ pc = "tokenize"
    /\ tokens' = word_tokenize(original)
    /\ tagged' = pos_tag(word_tokenize(original))
    /\ pc' = "build"
    /\ UNCHANGED <<inputs, scorer, failure, original, word_replacements, replaceable_words,
                   variations, seen_variations, turnitin_proof, variation_num, generated, result>>

\* the entries (index, word, tag) of the tokens that are eligible and have synonyms
ReplaceableWords(tg) ==
    LET Eligible(i) == _should_replace_word(tg[i][1], tg[i][2]) /\ SynonymSet(tg[i][1], tg[i][2], MaxSynonyms) # {}
        Entries(positions) ==
            [k \in 1..Len(positions) |-> <<positions[k] - 1, tg[positions[k]][1], tg[positions[k]][2]>>]
    IN  Entries(SelectSeq([i \in 1..Len(tg) |-> i], Eligible))

\* every lemma name of the sense groups of a key, unfiltered
AllLemmasOfKey(rws, key) ==
    {LemmaSynonym(LemmaNamesOf(synsets(key, ""))[i]) : i \in 1..Len(LemmaNamesOf(synsets(key, "")))}

\* the synonym set stored under a key: that of the last entry with this key
KeySynonymSet(rws, key) ==
    LET Of(entry) == SynonymSet(entry[2], entry[3], MaxSynonyms)
    IN  Of(rws[CHOOSE k \in 1..Len(rws) :
                  lower(rws[k][2]) = key /\ \A j \in (k + 1)..Len(rws) : lower(rws[j][2]) # key])

\* the maps the builder can produce, one per order list(synonyms) can take
RECURSIVE ReplacementMaps(_, _, _)
ReplacementMaps(rws, keys, st) ==
    IF keys = {} THEN {EmptyMap}
    ELSE LET key == CHOOSE k \in keys : TRUE
         IN  {(key :> _get_synonyms_for_word(listed, MaxSynonyms, st)) @@ m :
                 listed \in ListsOf(KeySynonymSet(rws, key)),
                 m \in ReplacementMaps(rws, keys \ {key}, st)}

\* lines 720-748: the replacement map, and the early return when it is empty
BuildMap ==
    /\ pc = "build"
    /\ LET Built(rws) ==
               IF rws = <<>>
               THEN /\ result' = DegradedResult(WithScore(
                                    _calculate_variation_stats(original, original, tokens, tokens, EmptyMap), 0))
                    /\ pc' = "done"
                    /\ UNCHANGED <<word_replacements, replaceable_words>>
               ELSE /\ word_replacements' \in
                           ReplacementMaps(rws, {lower(rws[k][2]) : k \in 1..Len(rws)}, style)
                    /\ replaceable_words' = rws
                    /\ pc' = IF anti_detection THEN "proof" ELSE "loop"
                    /\ UNCHANGED result
       IN  Built(ReplaceableWords(tagged))
    /\ variations' = <<>>
    /\ seen_variations' = {}
    /\ UNCHANGED <<inputs, scorer, failure, original, tokens, tagged, turnitin_proof, variation_num, generated>>

\* a proof step that reports the sentence of the proof generator without keeping it
ProofNotKept ==
    /\ pc = "proof"
    /\ \E out \in _create_turnitin_proof_paraphrase(original, tokens, tagged, word_replacements, replaceable_words) :
        turnitin_proof' = out
    /\ pc' = "loop"
    /\ UNCHANGED <<inputs, scorer, failure, original, tokens, tagged, word_replacements, replaceable_words,
                   variations, seen_variations, variation_num, generated, result>>

\* lines 751-758: the proof generator runs first in anti-detection mode
Proof ==
    /\ pc = "proof"
    /\ \E out \in _create_turnitin_proof_paraphrase(original, tokens, tagged, word_replacements, replaceable_words) :
        /\ turnitin_proof' = out
        /\ IF out # None /\ out[1] # "" /\ lower(out[1]) \notin seen_variations
           THEN /\ variations' = Append(variations, out[1])
                /\ seen_variations' = seen_variations \cup {lower(out[1])}
           ELSE UNCHANGED <<variations, seen_variations>>
    /\ pc' = "loop"
    /\ UNCHANGED <<inputs, scorer, failure, original, tokens, tagged, word_replacements, replaceable_words,
                   variation_num, generated, result>>

\* a loop that goes on after num_variations variants are accepted
LoopIgnoringAccepted == variation_num < num_variations * AttemptFactor

\* the loop goes on: attempts remain and the target count is not reached
LoopContinues == variation_num < num_variations * AttemptFactor /\ Len(variations) < num_variations

\* the tests of an attempt without the look-up in seen_variations
AcceptsSeenAttempt(words_to_replace, variation) ==
    /\ ReplacementsMade(words_to_replace, word_replacements) > 0
    /\ ~(anti_detection /\ LoopRejects(tokens, variation))
    /\ lower(variation) # lower(original)
    /\ Len(variation) > 0

\* lines 811-836: the tests an attempt passes before its variation is kept
AcceptsAttempt(words_to_replace, variation) ==
    /\ ReplacementsMade(words_to_replace, word_replacements) > 0
    /\ ~(anti_detection /\ LoopRejects(tokens, variation))
    /\ lower(variation) # lower(original)
    /\ lower(variation) \notin seen_variations
    /\ Len(variation) > 0

\* lines 761-839: one iteration of the generation loop
Attempt ==
    /\ pc = "loop"
    /\ LoopContinues
    /\ \E words_to_replace \in Samples(replaceable_words,
                                       IF anti_detection THEN AggressiveCounts(Len(replaceable_words))
                                       ELSE StandardCounts(Len(replaceable_words))) :
       \E new_tokens \in Substitute(tokens, words_to_replace, word_replacements, anti_detection) :
          LET Of(variation) ==
                  IF AcceptsAttempt(words_to_replace, variation)
                  THEN /\ variations' = Append(variations, variation)
                       /\ seen_variations' = seen_variations \cup {lower(variation)}
                  ELSE UNCHANGED <<variations, seen_variations>>
          IN  Of(FixPunctuation(join(new_tokens)))
    /\ variation_num' = variation_num + 1
    /\ UNCHANGED <<inputs, scorer, failure, pc, original, tokens, tagged, word_replacements, replaceable_words,
                   turnitin_proof, generated, result>>

\* a forced replacement of the last replaceable word instead of the first
ForcedOnLastWord ==
    LET Of(idx, word) ==
            <<FixPunctuationFallback(join([tokens EXCEPT ![idx + 1] = word_replacements[lower(word)][1]]))>>
    IN  Of(replaceable_words[Len(replaceable_words)][1], replaceable_words[Len(replaceable_words)][2])

\* the variant of the forced single-word replacement, <<>> when it adds nothing
ForcedVariation ==
    LET idx == replaceable_words[1][1]
        word == replaceable_words[1][2]
        Cased(first) == IF word # "" /\ isupper(Head(word)) THEN capitalize(first) ELSE first
        Of(variation) == IF lower(variation) # lower(original) THEN <<variation>> ELSE <<>>
        Forced(word_lower) ==
            IF word_lower \in DOMAIN word_replacements /\ word_replacements[word_lower] # <<>>
            THEN Of(FixPunctuationFallback(
                        join([tokens EXCEPT ![idx + 1] = Cased(word_replacements[word_lower][1])])))
            ELSE <<>>
    IN  Forced(lower(word))

\* lines 841-860: the loop is over; the two fallbacks. The loop counter is not read
\* after the loop and is dropped here.
Fallback ==
    /\ pc = "loop"
    /\ ~LoopContinues
    /\ LET Final(forced) == IF forced = <<>> THEN <<original>> ELSE forced
           Of(final) == variations' = final /\ generated' = final
       IN  Of(Final(IF variations = <<>> /\ replaceable_words # <<>> THEN ForcedVariation ELSE variations))
    /\ variation_num' = 0
    /\ pc' = "filter"
    /\ UNCHANGED <<inputs, scorer, failure, original, tokens, tagged, word_replacements, replaceable_words,
                   seen_variations, turnitin_proof, result>>

\* the literals 0.95 and 1.05 of the length filter
ShorterBelow == Frac(95, 100)

LongerAbove == Frac(105, 100)

\* the length test of the filter, on the ratio len(variation) / len(original)
KeptByLength(variation, orig, preference) ==
    LET Of(length_ratio) ==
            \/ preference = "shorter" /\ FLt(length_ratio, ShorterBelow)
            \/ preference = "longer" /\ FGt(length_ratio, LongerAbove)
    IN  Of(IF Len(orig) > 0 THEN Frac(Len(variation), Len(orig)) ELSE One)

\* lines 863-879
LengthFilter ==
    /\ pc = "filter"
    /\ LET filtered_variations == SelectSeq(variations, LAMBDA v : KeptByLength(v, original, length_preference))
       IN  variations' = IF length_preference # "same" /\ filtered_variations # <<>>
                         THEN PySlice(filtered_variations, num_variations * 2)
                         ELSE variations
    /\ pc' = "score"
    /\ UNCHANGED <<inputs, scorer, failure, original, tokens, tagged, word_replacements, replaceable_words,
                   seen_variations, turnitin_proof, variation_num, generated, result>>

\* a ranking that leaves the scored variations in generation order
Unsorted(scored) == scored

\* scored_variations.sort(reverse=True, key=lambda x: x[0]) on (score, variation, i, stats)
RECURSIVE InsertByScore(_, _)
InsertByScore(ranked, x) ==
    IF ranked = <<>> THEN <<x>>
    ELSE IF FGeq(ranked[1][1], x[1]) THEN <<ranked[1]>> \o InsertByScore(Tail(ranked), x)
    ELSE <<x>> \o ranked

RECURSIVE SortByScore(_)
SortByScore(scored) ==
    IF scored = <<>> THEN <<>>
    ELSE InsertByScore(SortByScore(SubSeq(scored, 1, Len(scored) - 1)), scored[Len(scored)])

\* lines 882-898: (score, variation, i, stats) for every variation, scored one after the
\* other; down holds the positions of the variations in whose semantic check the
\* lexical source raises (each call of the scorer has its own try block)
ScoredVariations(down) ==
    LET Entry(i, variation, stats, score) == <<score, variation, i - 1, WithScore(stats, FRound(score, 1000))>>
        Scored(i, variation, var_tokens) ==
            Entry(i, variation,
                  _calculate_variation_stats(original, variation, tokens, var_tokens, word_replacements),
                  ScoreWith(original, variation, tokens, var_tokens, word_replacements, tagged, i \notin down))
    IN  [i \in 1..Len(variations) |-> Scored(i, variations[i], word_tokenize(variations[i]))]

\* lines 914-925, given the sorted lists of line 924
SuccessResultWith(scored_variations, sorted_replacements) ==
    LET top == PySlice(scored_variations, num_variations)
    IN  [original |-> original,
         variations |-> [k \in 1..Len(top) |-> top[k][2]],
         variation_stats |-> [k \in 1..Len(top) |-> top[k][4]],
         best_variation |-> scored_variations[1][2],
         best_score |-> FRound(scored_variations[1][1], 1000),
         turnitin_proof |-> IF anti_detection THEN turnitin_proof ELSE None,
         style |-> style,
         length_preference |-> length_preference,
         anti_detection |-> anti_detection,
         word_replacements |-> sorted_replacements]

\* lines 914-925
SuccessResult(scored_variations) ==
    SuccessResultWith(scored_variations,
                      [k \in DOMAIN word_replacements |-> sorted(word_replacements[k])])

\* lines 882-925; with nothing to score, variations[0] raises and the handler takes over
ScoreRankWith(down) ==
    /\ IF variations = <<>>
       THEN /\ pc' = "except"
            /\ UNCHANGED result
       ELSE /\ result' = SuccessResult(SortByScore(ScoredVariations(down)))
            /\ pc' = "done"
    /\ UNCHANGED <<inputs, scorer, locals>>

ScoreRank ==
    /\ pc = "score"
    /\ ScoreRankWith({})
    /\ UNCHANGED failure

\* a handler that returns the variations generated so far
HandlerKeepingVariations ==
    /\ pc = "except"
    /\ result' = [DegradedResult(WithScore(
                      _calculate_variation_stats(original, original, word_tokenize(original),
                                                 word_tokenize(original), EmptyMap), 0))
                  EXCEPT !.variations = IF variations = <<>> THEN <<original>> ELSE variations]
    /\ tokens' = word_tokenize(original)
    /\ pc' = "done"
    /\ UNCHANGED <<inputs, scorer, failure, original, tagged, word_replacements, replaceable_words,
                   variations, seen_variations, turnitin_proof, variation_num, generated>>

\* lines 927-949: the handler of the try block, with the tokenizer answering; line 934
\* binds tokens again
Handler ==
    /\ pc = "except"
    /\ result' = DegradedResult(WithScore(
                    _calculate_variation_stats(original, original, word_tokenize(original),
                                               word_tokenize(original), EmptyMap), 0))
    /\ tokens' = word_tokenize(original)
    /\ pc' = "done"
    /\ UNCHANGED <<inputs, scorer, failure, original, tagged, word_replacements, replaceable_words,
                   variations, seen_variations, turnitin_proof, variation_num, generated>>

Next ==
    \/ Start
    \/ TokenizeTag
    \/ BuildMap
    \/ Proof
    \/ Attempt
    \/ Fallback
    \/ LengthFilter
    \/ ScoreRank
    \/ Handler

Spec == Init /\ [][Next]_vars

\* the points of control of the call
ProgramPoints == {"start", "tokenize", "build", "proof", "loop", "filter", "score", "except", "done"}

\* control moves on: every step of Next moves the point of control or the loop counter,
\* and a call that has not returned has such a step
ControlAdvances ==
    /\ pc # "done"
    /\ pc' \in ProgramPoints
    /\ variation_num' \in {0, variation_num, variation_num + 1}

\* the call runs to its return: a sequential function whose interpreter takes the next
\* step whenever there is one
SpecLive == Spec /\ WF_<<pc, variation_num>>(ControlAdvances)

(***************************************************************************)
(* The same call with collaborators that can raise                         *)
(***************************************************************************)
\* word_tokenize raises (line 716, before tokens is bound) or pos_tag raises (line 717,
\* after it)
TokenizerFails ==
    /\ pc = "tokenize"
    /\ \E line \in {716, 717} :
          tokens' = IF line = 716 THEN tokens ELSE word_tokenize(original)
    /\ pc' = "except"
    /\ failure' = "tokenizer"
    /\ UNCHANGED <<inputs, scorer, result, original, tagged, word_replacements, replaceable_words,
                   variations, seen_variations, turnitin_proof, variation_num, generated>>

\* the map and the list as the words before position i leave them (lines 724-730)
LexiconFailsAt(rws) ==
    /\ word_replacements' \in ReplacementMaps(rws, {lower(rws[k][2]) : k \in 1..Len(rws)}, style)
    /\ replaceable_words' = rws

\* wn.synsets raises while the map is built (line 726), in the call for an eligible
\* word: the entries of the words before it are in the map and in the list
LexiconFails ==
    /\ pc = "build"
    /\ \E i \in 1..Len(tagged) :
          /\ _should_replace_word(tagged[i][1], tagged[i][2])
          /\ LexiconFailsAt(ReplaceableWords(SubSeq(tagged, 1, i - 1)))
    /\ pc' = "except"
    /\ failure' = "lexicon"
    /\ UNCHANGED <<inputs, scorer, result, original, tokens, tagged, variations, seen_variations,
                   turnitin_proof, variation_num, generated>>

\* word_tokenize or the scorer raises while the variations are scored (lines 882-898)
ScorerFails ==
    /\ pc = "score"
    /\ variations # <<>>
    /\ pc' = "except"
    /\ failure' = "scorer"
    /\ UNCHANGED <<inputs, scorer, locals, result>>

\* the semantic check of the scorer reaches wn.synsets for this variation (lines 311-319)
SemanticCheckRuns(variation) ==
    /\ lower(variation) # lower(original)
    /\ AlnumLowerSet(tokens) \ ContentStopWords # {}
    /\ AlnumLowerSet(word_tokenize(variation)) \ ContentStopWords # {}
    /\ ReplacementPositions(tokens, word_tokenize(variation), word_replacements) # <<>>

\* lines 882-925 when the semantic check fails for the variations at the positions of
\* down, some of those whose check reaches the lexical source: up and failed are the
\* entries of ScoredVariations without a failure and with one for every variation
ScoreRankMixed(up, failed, checked, sorted_replacements) ==
    \E down \in SUBSET checked :
        /\ down # {}
        /\ result' = SuccessResultWith(
                         SortByScore([i \in 1..Len(up) |-> IF i \in down THEN failed[i] ELSE up[i]]),
                         sorted_replacements)
        /\ pc' = "done"

\* wn.synsets raises inside the semantic check of the scorer (lines 299-343), for some
\* of the variations whose check reaches it: the try block of each call absorbs it
ScoreRankLexiconDown ==
    /\ pc = "score"
    /\ \E up \in {ScoredVariations({})}, failed \in {ScoredVariations(1..Len(variations))},
          sorted_replacements \in {[k \in DOMAIN word_replacements |-> sorted(word_replacements[k])]} :
          ScoreRankMixed(up, failed, {i \in 1..Len(variations) : SemanticCheckRuns(variations[i])},
                         sorted_replacements)
    /\ failure' = "semantic"
    /\ UNCHANGED <<inputs, scorer, locals>>

\* the handler when word_tokenize raises again: the short stats dictionary (line 938)
HandlerTokenizerDown ==
    /\ pc = "except"
    /\ result' = DegradedResult([similarity_percent |-> 1000, word_changes |-> 0, score |-> 0])
    /\ pc' = "done"
    /\ failure' = "tokenizer"
    /\ UNCHANGED <<inputs, scorer, locals>>

NextFail ==
    \/ Next
    \/ TokenizerFails
    \/ LexiconFails
    \/ ScorerFails
    \/ ScoreRankLexiconDown
    \/ HandlerTokenizerDown

SpecFail == Init /\ [][NextFail]_vars

(***************************************************************************)
(* The calls of SpecFail in the balanced style. The style orders the       *)
(* candidate lists (lines 184-185) and is copied to the result; neither    *)
(* _calculate_variation_score nor _calculate_variation_stats reads it.     *)
(***************************************************************************)
InitStats == Init /\ style = "balanced"

SpecStats == InitStats /\ [][NextFail]_vars

(***************************************************************************)
(* The call up to the replacement map (lines 702-748), and                 *)
(* _get_synonyms_for_word called on its own with a small max_synonyms      *)
(***************************************************************************)
\* sentences with a word of five candidates: "house" has them in one sense group,
\* "tree" gets four of them from the hypernyms of its two sense groups
RichSentences == {"The house sat.", "The tree sat."}

\* the largest max_synonyms of the direct calls, besides the 15 of line 726
MaxCallSynonyms == 3

SynonymWords == {"cat", "house", "Tree", "zap"}

\* "" stands for None
SynonymTags == {"", "NN", "VBD"}

SynonymCalls ==
    [word : SynonymWords, pos_tag : SynonymTags,
     max_synonyms : (0..MaxCallSynonyms) \cup {MaxSynonyms}, style : Styles]

InitMap ==
    /\ \/ /\ sentence \in Sentences \cup {LongSentence, MixedSentence} \cup RichSentences
          /\ style \in Styles
          /\ anti_detection \in BOOLEAN
          /\ synonyms_call = None
       \/ /\ sentence = "The cat sat."
          /\ style = "balanced"
          /\ anti_detection = FALSE
          /\ \E call \in SynonymCalls : synonyms_call = Some(call)
    /\ num_variations = 1
    /\ length_preference = "same"
    /\ pc = "start"
    /\ Fresh
    /\ failure = "none"
    /\ score_call = None
    /\ score_value = None
    /\ filter_call = None
    /\ filter_value = None
    /\ replaced_tokens = None
    /\ structural_call = None
    /\ structural_value = None
    /\ bulk = None
    /\ synonyms_value = None

\* the values one call of _get_synonyms_for_word can return (lines 138-187)
SynonymLists(call) ==
    {_get_synonyms_for_word(listed, call.max_synonyms, call.style) :
        listed \in ListsOf(SynonymSet(call.word, call.pos_tag, call.max_synonyms))}

\* one call of _get_synonyms_for_word
SynonymsCall ==
    /\ synonyms_call # None
    /\ synonyms_value = None
    /\ \E value \in SynonymLists(synonyms_call[1]) : synonyms_value' = Some(value)
    /\ UNCHANGED <<inputs, pc, locals, result, failure, score_call, score_value, filter_call, filter_value,
                   replaced_tokens, structural_call, structural_value, bulk, synonyms_call>>

NextMap ==
    \/ Start
    \/ TokenizeTag
    \/ BuildMap
    \/ SynonymsCall

SpecMap == InitMap /\ [][NextMap]_vars

(***************************************************************************)
(* _calculate_variation_score called on its own, on arbitrary arguments    *)
(***************************************************************************)
MaxScoreTokens == 2

ScoreTokens == {"big", "Large", "o'clock", "hour", "cat", "."}

ScoreTokenLists == UNION {[1..n -> ScoreTokens] : n \in 0..MaxScoreTokens}

ScoreMaps ==
    {EmptyMap,
     "big" :> <<"large">>,
     ("big" :> <<"large">>) @@ ("o'clock" :> <<"hour">>),
     "cat" :> <<"feline", "animal", "big">>}

\* the argument tuple of a call: the original text is that of its token list
ScoreCallOf(ot, vt, m, v) ==
    [original |-> join(ot), variation |-> v, original_tokens |-> ot, variation_tokens |-> vt,
     word_replacements |-> m, tagged |-> pos_tag(ot)]

InitScore ==
    /\ sentence = ""
    /\ num_variations = 1
    /\ style = "balanced"
    /\ length_preference = "same"
    /\ anti_detection = FALSE
    /\ pc = "call"
    /\ Fresh
    /\ failure = "none"
    /\ \E ot \in ScoreTokenLists, vt \in ScoreTokenLists, m \in ScoreMaps :
           \* the variant text is that of its token list, or empty
           \E v \in {"", join(vt)} : score_call = Some(ScoreCallOf(ot, vt, m, v))
    /\ score_value = None
    /\ filter_call = None
    /\ filter_value = None
    /\ replaced_tokens = None
    /\ structural_call = None
    /\ structural_value = None
    /\ bulk = None
    /\ synonyms_call = None
    /\ synonyms_value = None

\* one call of _calculate_variation_score
ScoreCall ==
    /\ pc = "call"
    /\ score_value' = Some(_calculate_variation_score(
                            score_call[1].original, score_call[1].variation,
                            score_call[1].original_tokens, score_call[1].variation_tokens,
                            score_call[1].word_replacements, score_call[1].tagged))
    /\ pc' = "returned"
    /\ UNCHANGED <<inputs, locals, result, failure, score_call, filter_call, filter_value, replaced_tokens,
                   structural_call, structural_value, bulk, synonyms_call, synonyms_value>>

NextScore == ScoreCall

SpecScore == InitScore /\ [][NextScore]_vars

(***************************************************************************)
(* _filter_synonyms_by_style called on its own, on arbitrary lists         *)
(***************************************************************************)
MaxFilterLen == 3

\* words of several lengths, some of the informal and of the formal word lists
FilterWords == {"big", "cat", "huge", "large", "feline", "utilize", "animals", "magnificent"}

\* the five styles the function names, and one it does not
FilterStyles == {"balanced", "formal", "casual", "academic", "simple", "plain"}

InitStyle ==
    /\ sentence = ""
    /\ num_variations = 1
    /\ style \in FilterStyles
    /\ length_preference = "same"
    /\ anti_detection = FALSE
    /\ pc = "call"
    /\ Fresh
    /\ failure = "none"
    /\ score_call = None
    /\ score_value = None
    /\ \E n \in 0..MaxFilterLen : \E synonyms \in [1..n -> FilterWords] : filter_call = Some(synonyms)
    /\ filter_value = None
    /\ replaced_tokens = None
    /\ structural_call = None
    /\ structural_value = None
    /\ bulk = None
    /\ synonyms_call = None
    /\ synonyms_value = None

\* one call of _filter_synonyms_by_style
StyleCall ==
    /\ pc = "call"
    /\ filter_value' = Some(_filter_synonyms_by_style(filter_call[1], style))
    /\ pc' = "returned"
    /\ UNCHANGED <<inputs, locals, result, failure, score_call, score_value, filter_call, replaced_tokens,
                   structural_call, structural_value, bulk, synonyms_call, synonyms_value>>

NextStyle == StyleCall

SpecStyle == InitStyle /\ [][NextStyle]_vars

(***************************************************************************)
(* The replacement pass of one attempt (lines 776-800, and 518-545 in the  *)
(* proof generator) on its own, over candidate lists of every length a     *)
(* larger lexical source gives.                                            *)
(***************************************************************************)
MaxCandidates == 6

\* a sentence whose first eligible word is capitalised and whose last token is a mark
ReplaceSentence == "Big cat sat."

\* ranked candidates of a key, as many as a call may find
CandidatePool(key) ==
    CASE key = "big" -> <<"large", "great", "grand", "vast", "giant", "massive", "immense">>
      [] key = "cat" -> <<"feline", "animal", "kitty", "tomcat", "mouser", "puss", "tabby">>
      [] OTHER -> <<"sit", "rest", "perch", "squat", "roost", "settle", "lounge">>

InitReplace ==
    /\ sentence = ReplaceSentence
    /\ num_variations = 1
    /\ style = "balanced"
    /\ length_preference = "same"
    /\ anti_detection \in BOOLEAN
    /\ pc = "call"
    /\ original = ReplaceSentence
    /\ tokens = word_tokenize(ReplaceSentence)
    /\ tagged = pos_tag(word_tokenize(ReplaceSentence))
    /\ replaceable_words = ReplaceableWords(pos_tag(word_tokenize(ReplaceSentence)))
    /\ \E sizes \in [{"big", "cat", "sat"} -> 1..MaxCandidates] :
           word_replacements = [key \in {"big", "cat", "sat"} |-> Take(CandidatePool(key), sizes[key])]
    /\ variations = <<>>
    /\ seen_variations = {}
    /\ turnitin_proof = None
    /\ variation_num = 0
    /\ generated = <<>>
    /\ result = <<>>
    /\ failure = "none"
    /\ score_call = None
    /\ score_value = None
    /\ filter_call = None
    /\ filter_value = None
    /\ replaced_tokens = None
    /\ structural_call = None
    /\ structural_value = None
    /\ bulk = None
    /\ synonyms_call = None
    /\ synonyms_value = None

\* one replacement pass: the entries are drawn, then each drawn word is replaced
Replace ==
    /\ pc = "call"
    /\ \E words_to_replace \in Samples(replaceable_words,
                                       IF anti_detection THEN AggressiveCounts(Len(replaceable_words))
                                       ELSE StandardCounts(Len(replaceable_words))) :
          \E new_tokens \in Substitute(tokens, words_to_replace, word_replacements, anti_detection) :
              replaced_tokens' = Some(new_tokens)
    /\ pc' = "returned"
    /\ UNCHANGED <<inputs, locals, result, failure, score_call, score_value, filter_call, filter_value,
                   structural_call, structural_value, bulk, synonyms_call, synonyms_value>>

NextReplace == Replace

SpecReplace == InitReplace /\ [][NextReplace]_vars

(***************************************************************************)
(* The regex substitutions of strategy 3 (lines 553-603) on their own, on  *)
(* arbitrary short texts.                                                  *)
(***************************************************************************)
MaxRewriteWords == 3

\* words that the patterns look for, and words they do not
RewriteWords == {"The", "it", "is", "very", "cat", "quickly", "painted", "by"}

\* longer texts, for the patterns that span four and five words
PassiveTexts ==
    {"The cat is painted by it", "cat was painted by The dog", "is painted by it",
     "it is painted by cat", "The cat is very big cat", "The cat is quickly painted by it"}

InitRewrite ==
    /\ sentence = ""
    /\ num_variations = 1
    /\ style = "balanced"
    /\ length_preference = "same"
    /\ anti_detection = TRUE
    /\ pc = "call"
    /\ Fresh
    /\ failure = "none"
    /\ score_call = None
    /\ score_value = None
    /\ filter_call = None
    /\ filter_value = None
    /\ replaced_tokens = None
    /\ \/ \E n \in 1..MaxRewriteWords : \E words \in [1..n -> RewriteWords] :
              structural_call = Some(join(words))
       \/ \E text \in PassiveTexts : structural_call = Some(text)
    /\ structural_value = None
    /\ bulk = None
    /\ synonyms_call = None
    /\ synonyms_value = None

\* lines 583-603: the loop over the listed patterns, then the sentence starter, then
\* the leading pronoun
Rewrite ==
    /\ pc = "call"
    /\ \E after_list \in {ApplyStructuralChanges(structural_call[1], 1)} :
          \E after_starter \in ReplaceStarter(after_list) :
              structural_value' = Some([after_list |-> after_list,
                                        after_starter |-> after_starter,
                                        after_pronoun |-> ReplacePronoun(after_starter)])
    /\ pc' = "returned"
    /\ UNCHANGED <<inputs, locals, result, failure, score_call, score_value, filter_call, filter_value,
                   replaced_tokens, structural_call, bulk, synonyms_call, synonyms_value>>

NextRewrite == Rewrite

SpecRewrite == InitRewrite /\ [][NextRewrite]_vars

(***************************************************************************)
(* The batch endpoint POST /api/bulk-paraphrase (app.py, lines 68-129):    *)
(* one request, its loop over the paragraphs, and its response.            *)
(***************************************************************************)
\* the most paragraphs one request may carry (line 83)
MaxParagraphs == 50

\* the longest array whose elements are drawn freely
MaxBulkLen == 3

\* JSON values as Python receives them: a string, a number, true/false, null, and an
\* array (of which only the length is kept). A number that is no finite float (NaN,
\* Infinity, 1e400) is kept apart.
JsonString(s) == [type |-> "string", text |-> s, number |-> 0]

JsonNumber(n) == [type |-> "number", text |-> "", number |-> n]

JsonNonFinite(name) == [type |-> "nonfinite", text |-> name, number |-> 1]

JsonBool(b) == [type |-> "bool", text |-> "", number |-> IF b THEN 1 ELSE 0]

JsonNull == [type |-> "null", text |-> "", number |-> 0]

JsonArray(n) == [type |-> "array", text |-> "", number |-> n]

\* Python's truth value of a decoded JSON value, as `not paragraph` takes it
Truthy(v) ==
    CASE v.type = "string" -> v.text # ""
      [] v.type = "nonfinite" -> TRUE
      [] v.type = "null" -> FALSE
      [] OTHER -> v.number # 0

\* the digits part of an integer literal of int(): digits, with single underscores
\* allowed between two digits
IsDigitRun(d) ==
    /\ d # ""
    /\ \A i \in 1..Len(d) : Char(d, i) \in DigitChars \cup {"_"}
    /\ Char(d, 1) # "_"
    /\ Char(d, Len(d)) # "_"
    /\ \A i \in 1..(Len(d) - 1) : ~(Char(d, i) = "_" /\ Char(d, i + 1) = "_")

\* the most digits int() converts from a string (sys.int_max_str_digits)
MaxStrDigits == 4300

\* the digits of a digits part, its underscores left out
DigitCount(d) == Cardinality({i \in 1..Len(d) : Char(d, i) # "_"})

\* int(v) raises: on None and on a list (TypeError), on a number that is not finite
\* (OverflowError, ValueError), and on a string that is not an optionally signed
\* integer literal between blanks or has more than 4300 digits (ValueError)
IntRaises(v) ==
    CASE v.type \in {"number", "bool"} -> FALSE
      [] v.type = "string" ->
            LET Of(d) == ~IsDigitRun(d) \/ DigitCount(d) > MaxStrDigits
                Unsigned(t) == Of(IF t # "" /\ Char(t, 1) \in {"+", "-"} THEN Mid(t, 2, Len(t)) ELSE t)
            IN  Unsigned(strip(v.text))
      [] OTHER -> TRUE

\* the elements a paragraphs array is built from
BulkElements ==
    {JsonString("The cat sat."), JsonString(""), JsonString(" "), JsonNumber(0),
     JsonNumber(5), JsonNull, JsonBool(TRUE), JsonArray(0)}

\* s repeated n times
RECURSIVE RepeatStr(_, _)
RepeatStr(s, n) ==
    IF n = 0 THEN ""
    ELSE IF n % 2 = 1 THEN s \o RepeatStr(s, n - 1)
    ELSE RepeatStr(s \o s, n \div 2)

\* the num_variations fields of a request: the default 3, a numeric string, a word, a
\* number that is not finite, and a digit string one longer than int() takes
BulkCounts ==
    {JsonNumber(3), JsonString("1_0"), JsonString("two"), JsonNonFinite("Infinity"),
     JsonString(RepeatStr("1", MaxStrDigits + 1))}

\* no response yet, and the two kinds of response
NoResponse ==
    [status |-> 0, error |-> "", success |-> 0, errors |-> 0, results |-> <<>>, errors_detail |-> <<>>]

ErrorResponse(status, message) == [NoResponse EXCEPT !.status = status, !.error = message]

\* lines 71-78: the request body, with the locals of the handler
BulkRequest(kind, paragraphs, count) ==
    [paragraphs_kind |-> kind, paragraphs |-> paragraphs, num_variations |-> count,
     idx |-> 0, results |-> <<>>, errors |-> <<>>, response |-> NoResponse]

InitBulk ==
    /\ sentence = ""
    /\ num_variations = 1
    /\ style = "balanced"
    /\ length_preference = "same"
    /\ anti_detection = FALSE
    /\ pc = "request"
    /\ Fresh
    /\ failure = "none"
    /\ score_call = None
    /\ score_value = None
    /\ filter_call = None
    /\ filter_value = None
    /\ replaced_tokens = None
    /\ structural_call = None
    /\ structural_value = None
    /\ synonyms_call = None
    /\ synonyms_value = None
    /\ \E count \in BulkCounts :
          \/ \E kind \in {"missing", "other"} : bulk = BulkRequest(kind, <<>>, count)
          \/ \E n \in 0..MaxBulkLen : \E paragraphs \in [1..n -> BulkElements] :
                bulk = BulkRequest("array", paragraphs, count)
          \/ \E n \in {MaxParagraphs, MaxParagraphs + 1} :
                bulk = BulkRequest("array", [i \in 1..n |-> JsonString("The cat sat.")], count)

\* lines 72-84: the three rejections, or the entry into the loop
BulkValidate ==
    /\ pc = "request"
    /\ IF bulk.paragraphs_kind = "missing"
       THEN /\ bulk' = [bulk EXCEPT !.response =
                           ErrorResponse(400, "A 'paragraphs' array is required in the request body.")]
            /\ pc' = "returned"
       ELSE IF bulk.paragraphs = <<>> \/ bulk.paragraphs_kind # "array"
       THEN /\ bulk' = [bulk EXCEPT !.response =
                           ErrorResponse(400, "Paragraphs must be a non-empty array.")]
            /\ pc' = "returned"
       ELSE IF Len(bulk.paragraphs) > MaxParagraphs
       THEN /\ bulk' = [bulk EXCEPT !.response =
                           ErrorResponse(400, "Maximum 50 paragraphs allowed at once.")]
            /\ pc' = "returned"
       ELSE /\ bulk' = bulk
            /\ pc' = "loop"
    /\ UNCHANGED <<inputs, locals, result, failure, score_call, score_value, filter_call, filter_value,
                   replaced_tokens, structural_call, structural_value, synonyms_call, synonyms_value>>

\* lines 90-114 and 127-129: one iteration of the loop. The guard of line 91 calls
\* paragraph.strip() outside the inner try, so on a value without strip the
\* AttributeError reaches the outer handler; int(num_variations) and
\* paraphrase_sentence are inside the inner try. An entry of errors made at line 92
\* has no "original" key, written here as ""; an entry of results also carries the
\* dictionary paraphrase_sentence returned, which is left out here.
BulkIterate ==
    /\ pc = "loop"
    /\ bulk.idx < Len(bulk.paragraphs)
    /\ LET paragraph == bulk.paragraphs[bulk.idx + 1]
           Skipped == [index |-> bulk.idx, original |-> "", error |-> "Empty paragraph"]
           Failed(text) == [index |-> bulk.idx, original |-> Mid(text, 1, 100),
                            error |-> "Processing failed"]
           Done(text) == [index |-> bulk.idx, original |-> text, success |-> TRUE]
       IN  IF ~Truthy(paragraph)
           THEN /\ bulk' = [bulk EXCEPT !.errors = Append(@, Skipped), !.idx = @ + 1]
                /\ pc' = "loop"
           ELSE IF paragraph.type # "string"
           THEN /\ bulk' = [bulk EXCEPT !.response =
                               ErrorResponse(500, "Unable to process the request right now.")]
                /\ pc' = "returned"
           ELSE IF strip(paragraph.text) = ""
           THEN /\ bulk' = [bulk EXCEPT !.errors = Append(@, Skipped), !.idx = @ + 1]
                /\ pc' = "loop"
           ELSE IF IntRaises(bulk.num_variations)
           THEN /\ bulk' = [bulk EXCEPT !.errors = Append(@, Failed(strip(paragraph.text))),
                                        !.idx = @ + 1]
                /\ pc' = "loop"
           ELSE /\ bulk' = [bulk EXCEPT !.results = Append(@, Done(strip(paragraph.text))),
                                        !.idx = @ + 1]
                /\ pc' = "loop"
    /\ UNCHANGED <<inputs, locals, result, failure, score_call, score_value, filter_call, filter_value,
                   replaced_tokens, structural_call, structural_value, synonyms_call, synonyms_value>>

\* lines 116-126: the batch report
BulkRespond ==
    /\ pc = "loop"
    /\ bulk.idx = Len(bulk.paragraphs)
    /\ bulk' = [bulk EXCEPT !.response =
                   [status |-> 200, error |-> "", success |-> Len(bulk.results),
                    errors |-> Len(bulk.errors), results |-> bulk.results,
                    errors_detail |-> bulk.errors]]
    /\ pc' = "returned"
    /\ UNCHANGED <<inputs, locals, result, failure, score_call, score_value, filter_call, filter_value,
                   replaced_tokens, structural_call, structural_value, synonyms_call, synonyms_value>>

NextBulk == BulkValidate \/ BulkIterate \/ BulkRespond

SpecBulk == InitBulk /\ [][NextBulk]_vars

(***************************************************************************)
(* Properties of the result of paraphrase_sentence                         *)
(***************************************************************************)
Returned == pc = "done"

\* the sentence after trimming
Trimmed == strip(sentence)

\* some token of the sentence is eligible and has at least one synonym
HasEligibleWord == Trimmed # "" /\ ReplaceableWords(pos_tag(word_tokenize(Trimmed))) # <<>>

\* equal up to the case of the letters
SameText(a, b) == lower(a) = lower(b)

AllDiffer == \A i \in 1..Len(result.variations) : ~SameText(result.variations[i], result.original)

NoTwoAlike ==
    \A i, j \in 1..Len(result.variations) :
        i # j => ~SameText(result.variations[i], result.variations[j])

\* the change rates of a variant against the tokens of the original, as exact
\* fractions <<changed, total>>
WordChange(v) ==
    LET Of(ow, nw) == <<Cardinality(ow) - Cardinality(ow \cap nw), Cardinality(ow)>>
    IN  Of(AlnumLowerSet(tokens), AlnumLowerSet(split(v)))

NgramChange(v, n) ==
    LET Of(og, ng) == IF og = {} THEN WordChange(v)
                      ELSE <<Cardinality(og) - Cardinality(og \cap ng), Cardinality(og)>>
    IN  Of(get_ngrams(AlnumLowerList(tokens), n), get_ngrams(AlnumLowerList(split(v)), n))

BigramChange(v) == NgramChange(v, 2)

TrigramChange(v) == NgramChange(v, 3)

\* the fraction rate is at least n/d
AtLeast(rate, n, d) == rate[2] > 0 /\ d * rate[1] >= n * rate[2]

\* C1: for a sentence with an eligible word and any integer num_variations,
\* the returned variations list is non-empty and every entry differs from the original
\* up to case.
C1_NonEmptyVariations == Returned /\ HasEligibleWord => result.variations # <<>> /\ AllDiffer

\* C2: in aggressive mode every returned variation is exactly the original or has a
\* word-level change rate of at least 0.70 against the original, whichever path
\* produced it.
C2_AggressiveFloor ==
    Returned /\ anti_detection =>
        \A i \in 1..Len(result.variations) :
            result.variations[i] = original \/ AtLeast(WordChange(result.variations[i]), 7, 10)

\* the thresholds C3 names: 0.70 / 0.60 / 0.50, or else 0.75 on the words alone
FullGate(v) ==
    \/ /\ AtLeast(WordChange(v), 7, 10)
       /\ AtLeast(BigramChange(v), 3, 5)
       /\ AtLeast(TrigramChange(v), 1, 2)
    \/ AtLeast(WordChange(v), 3, 4)

\* the thresholds of the per-attempt loop: 0.70 on the words, 0.45 on the 2-grams
LoopGate(v) == AtLeast(WordChange(v), 7, 10) /\ AtLeast(BigramChange(v), 9, 20)

\* C3 as stated: every string accepted in aggressive mode, by the proof generator or
\* by the per-attempt loop, has word change >= 0.70, bigram change >= 0.60 and trigram
\* change >= 0.50, or else word change >= 0.75.
C3_FullGate ==
    anti_detection /\ pc = "loop" => \A i \in 1..Len(variations) : FullGate(variations[i])

\* C3 amended: the string the proof generator returns meets those thresholds; a string
\* accepted by the per-attempt aggressive loop has word change >= 0.70 and bigram
\* change >= 0.45, with no condition on the trigrams.
C3_LoopGate ==
    anti_detection /\ pc = "loop" =>
        /\ turnitin_proof # None => FullGate(turnitin_proof[1])
        /\ \A i \in 1..Len(variations) :
              Some(variations[i]) = turnitin_proof \/ LoopGate(variations[i])

C3_Witness ==
    /\ anti_detection /\ pc = "loop"
    /\ turnitin_proof = None /\ variations # <<>>
    /\ LoopGate(variations[1]) /\ ~FullGate(variations[1])

\* C4: _calculate_variation_score returns a value in [0, 1] for arbitrary arguments,
\* and exactly 0 when the variant is empty or equals the original up to case.
C4_ScoreInUnitInterval ==
    score_value # None =>
        /\ FGeq(score_value[1], Zero)
        /\ FLeq(score_value[1], One)
        /\ (score_call[1].variation = "" \/ SameText(score_call[1].variation, score_call[1].original))
              => score_value[1] = Zero

\* C5 as stated: in every result no two variations are equal up to case and none is
\* equal up to case to the original.
C5_NoDuplicates == Returned => NoTwoAlike /\ AllDiffer

\* C5 amended: in every result no two variations are equal up to case, and none is
\* equal up to case to the original unless the list is exactly [original].
C5_NoDuplicatesButPlaceholder ==
    Returned => NoTwoAlike /\ (AllDiffer \/ result.variations = <<result.original>>)

C5_Witness ==
    /\ Returned /\ sentence = "The feline sat."
    /\ Len(result.variations) = 2 /\ NoTwoAlike /\ AllDiffer

\* the degraded result: the original as the only variation, with score 0
Degraded ==
    /\ result.variations = <<original>>
    /\ result.best_variation = original
    /\ result.best_score = 0

\* C6 as stated: if the tokenizer, the tagger, the lexical source or the scorer fails
\* at any step, the call returns variations [original], best_variation original and
\* best_score 0.
C6_AnyFailureDegrades == Returned /\ failure # "none" => Degraded

\* C6 amended: if the tokenizer or the tagger fails, the lexical source fails while the
\* replacement map is built, or the scoring step raises, the call returns variations
\* [original], best_variation original and best_score 0; a failure of the lexical
\* source inside the semantic check of the scorer is absorbed there.
C6_CaughtFailureDegrades ==
    Returned /\ failure \in {"tokenizer", "lexicon", "scorer"} => Degraded

C6_Witness ==
    /\ Returned /\ failure = "scorer"
    /\ generated # <<>> /\ generated # <<original>>
    /\ Degraded

ResultFields ==
    {"original", "variations", "variation_stats", "best_variation", "best_score",
     "style", "length_preference", "anti_detection", "word_replacements"}

StatsFields ==
    {"similarity_percent", "word_changes", "changed_words", "length_diff", "length_percent", "score"}

\* C7: every returned result carries the full set of result fields, and every entry
\* of variation_stats the full set of statistics fields.
C7_SchemaComplete ==
    Returned =>
        /\ ResultFields \subseteq DOMAIN result
        /\ \A i \in 1..Len(result.variation_stats) :
              StatsFields \subseteq DOMAIN result.variation_stats[i]

\* C8: for a non-empty sentence without an eligible word that has a synonym, the result
\* has variations [original], best_variation original and best_score 0, in every mode
\* and for every option, and no generation attempt is made.
C8_NoEligibleWord ==
    Returned /\ Trimmed # "" /\ ~HasEligibleWord =>
        /\ result.variations = <<Trimmed>>
        /\ result.best_variation = Trimmed
        /\ result.best_score = 0
        /\ generated = <<>> /\ seen_variations = {} /\ turnitin_proof = None

C8_Witness ==
    /\ Returned /\ sentence = "The zap." /\ anti_detection
    /\ result.variations = <<"The zap.">> /\ result.best_score = 0

\* C9: for an empty or whitespace-only sentence the result is exactly original "",
\* variations [], variation_stats [], best_variation "", best_score 0 and
\* word_replacements {}, and nothing is tokenized or generated.
C9_EmptySentence ==
    Returned /\ Trimmed = "" =>
        /\ result = EmptyResult
        /\ tokens = <<>> /\ tagged = <<>>
        /\ generated = <<>> /\ seen_variations = {} /\ turnitin_proof = None

C9_Witness == Returned /\ sentence = "  " /\ num_variations = 2 /\ result = EmptyResult

\* the length band of the preference: below 0.95 or above 1.05 times the original
InBand(v) ==
    IF length_preference = "shorter"
    THEN 100 * Len(v) < 95 * Len(original)
    ELSE 100 * Len(v) > 105 * Len(original)

\* the rule of the length filter on the generated and the returned variations
LengthRule ==
    IF \E i \in 1..Len(generated) : InBand(generated[i])
    THEN \A i \in 1..Len(result.variations) : InBand(result.variations[i])
    ELSE Range(result.variations) = Range(generated)

\* C10: with a length preference, if some generated variation is in the band then
\* every returned variation is; otherwise the generated set is returned.
C10_LengthFilter == Returned /\ generated # <<>> /\ length_preference # "same" => LengthRule

\* the success return of lines 914-925, the only one that echoes anti_detection
Success == Returned /\ "anti_detection" \in DOMAIN result

\* the quality score of a returned variant, as the scoring step computes it
QualityScore(v) == ScoreWith(original, v, tokens, word_tokenize(v), word_replacements, tagged, TRUE)

\* the place of a returned variant in the list that was scored (generation order)
GenerationIndex(v) == IndexOf(variations, v)

\* the quality scores of a list of variants, in the order of the list
RECURSIVE QualityScores(_)
QualityScores(vs) ==
    IF vs = <<>> THEN <<>> ELSE <<QualityScore(vs[1])>> \o QualityScores(Tail(vs))

\* the variants vs, with the given scores, are in non-increasing order of score, those
\* of equal score in generation order
SortedStable(vs, scores) ==
    \A i, j \in 1..Len(vs) :
        i < j =>
            /\ FGeq(scores[i], scores[j])
            /\ scores[i] = scores[j] => GenerationIndex(vs[i]) < GenerationIndex(vs[j])

\* C11: on the success path the returned variations are in non-increasing order of
\* quality score, and variants of equal score keep their generation order.
C11_SortedStable == Success => SortedStable(result.variations, QualityScores(result.variations))

\* a success return with a tie between two variants, kept in generation order
C11_Witness ==
    /\ Success /\ Len(result.variations) = 2
    /\ QualityScore(result.variations[1]) = QualityScore(result.variations[2])
    /\ GenerationIndex(result.variations[1]) < GenerationIndex(result.variations[2])

\* C12: in every result for a non-empty sentence, whatever num_variations is,
\* best_variation is the first returned variation, and best_score is the score of the
\* first variation_stats entry and the largest score of the returned variations.
C12_BestIsFirst ==
    Returned /\ Trimmed # "" =>
        /\ result.variations # <<>>
        /\ result.best_variation = result.variations[1]
        /\ result.best_score = result.variation_stats[1].score
        /\ \A i \in 1..Len(result.variation_stats) : result.variation_stats[i].score <= result.best_score

\* the proof sentence is among the returned variations
ProofReturned == \E i \in 1..Len(result.variations) : Some(result.variations[i]) = turnitin_proof

\* C13 as stated: in aggressive mode a sentence returned by the proof generator is the
\* first accepted variant and is present in the returned variations.
C13_ProofReturned ==
    Returned /\ anti_detection /\ turnitin_proof # None =>
        /\ Some(generated[1]) = turnitin_proof
        /\ ProofReturned

\* C13 amended: a sentence returned by the proof generator is the first accepted
\* variant; on the success path with num_variations >= 1 it is returned when the
\* length filter does not apply to it, that is when no length preference is set, when
\* it is inside the preferred band, or when no generated variant is. The turnitin_proof
\* field of a success return reports it; the return of the handler has no such field.
C13_ProofFirstAndKeptByFilter ==
    anti_detection /\ turnitin_proof # None =>
        /\ pc \in {"loop", "filter"} => variations # <<>> /\ Some(variations[1]) = turnitin_proof
        /\ Returned => Some(generated[1]) = turnitin_proof
        /\ Success /\ num_variations >= 1
              /\ \/ length_preference = "same"
                 \/ InBand(turnitin_proof[1])
                 \/ \A i \in 1..Len(generated) : ~InBand(generated[i])
              => ProofReturned
        /\ Success => result.turnitin_proof = turnitin_proof
        /\ Returned /\ ~Success => "turnitin_proof" \notin DOMAIN result

\* the proof sentence was generated first and the length filter removed it; the
\* turnitin_proof field still reports it
C13_Witness ==
    /\ Success /\ anti_detection /\ turnitin_proof # None
    /\ num_variations = 2 /\ Len(generated) = 2
    /\ Some(generated[1]) = turnitin_proof
    /\ ~InBand(turnitin_proof[1]) /\ InBand(generated[2])
    /\ ~ProofReturned
    /\ result.turnitin_proof = turnitin_proof

\* the attempts the loop may make: range(num_variations * 5)
AttemptBudget == IF num_variations > 0 THEN num_variations * AttemptFactor ELSE 0

\* a step of the loop that stays in the loop: one attempt
AttemptStep == pc = "loop" /\ pc' = "loop" /\ variation_num' # variation_num

\* C14: the loop makes at most 5 * num_variations attempts, makes an attempt only while
\* fewer than num_variations variants are accepted, and every call returns.
C14_BoundedLoopTerminates ==
    /\ [](pc = "loop" => variation_num <= AttemptBudget)
    /\ [][AttemptStep => /\ variation_num' = variation_num + 1
                         /\ variation_num < AttemptBudget
                         /\ Len(variations) < num_variations]_vars
    /\ <>Returned

\* aggressive mode, the whole budget spent and no attempt accepted
C14_Witness ==
    /\ pc = "loop" /\ anti_detection /\ num_variations >= 1
    /\ variation_num = AttemptBudget
    /\ variations = <<>>

\* C15: once the map is built, every key is the lowercase form of an eligible token,
\* the lowercase form of every replaceable word is a key, and every value list is
\* non-empty, holds neither its key nor a multi-word phrase, and has at most 15 entries.
\* The function that makes the lists, called on its own, returns at most max_synonyms
\* entries, none of them the word or a multi-word phrase.
C15_MapWellFormed ==
    /\ \A key \in DOMAIN word_replacements :
          /\ \E i \in 1..Len(tagged) :
                _should_replace_word(tagged[i][1], tagged[i][2]) /\ lower(tagged[i][1]) = key
          /\ word_replacements[key] # <<>>
          /\ Len(word_replacements[key]) <= MaxSynonyms
          /\ \A j \in 1..Len(word_replacements[key]) :
                /\ word_replacements[key][j] # key
                /\ Len(split(word_replacements[key][j])) = 1
    /\ \A k \in 1..Len(replaceable_words) :
          /\ lower(replaceable_words[k][2]) \in DOMAIN word_replacements
          /\ _should_replace_word(replaceable_words[k][2], replaceable_words[k][3])
    /\ synonyms_value # None =>
          /\ Len(synonyms_value[1]) <= synonyms_call[1].max_synonyms
          /\ \A j \in 1..Len(synonyms_value[1]) :
                /\ synonyms_value[1][j] # lower(synonyms_call[1].word)
                /\ Len(split(synonyms_value[1][j])) = 1

\* a map built for a word whose sense group also lists the word itself and a
\* two-word lemma, neither of them among its candidates; and a direct call with
\* max_synonyms = 3 for "Tree": the second pass collects four names (the break of
\* line 179 ends one hypernym only, and keeps "chart" out), the slice returns three
C15_Witness ==
    /\ pc = "loop" /\ sentence = "The cat sat."
    /\ DOMAIN word_replacements = {"cat", "sat"}
    /\ Range(word_replacements["cat"]) = {"feline", "animal"}
    /\ "true cat" \in AllLemmasOfKey(replaceable_words, "cat")
    /\ "cat" \in AllLemmasOfKey(replaceable_words, "cat")
    /\ synonyms_call = Some([word |-> "Tree", pos_tag |-> "NN", max_synonyms |-> 3, style |-> "balanced"])
    /\ SynonymSet("Tree", "NN", 3) = {"sapling", "plant", "flora", "graph"}
    /\ synonyms_value # None
    /\ Len(synonyms_value[1]) = 3
    /\ "graph" \notin Range(synonyms_value[1])

\* the number of places of a list that hold a word
Occurrences(list, word) == Cardinality({i \in 1..Len(list) : list[i] = word})

\* C16: _filter_synonyms_by_style returns a permutation of its input; under "formal"
\* the formality scores of the output never increase, under "simple" the keys
\* (length, formality) never decrease in lexicographic order, and under "balanced"
\* the output is the input.
C16_StyleOrdering ==
    filter_value # None =>
        /\ Len(filter_value[1]) = Len(filter_call[1])
        /\ \A word \in FilterWords :
              Occurrences(filter_value[1], word) = Occurrences(filter_call[1], word)
        /\ style = "formal" =>
              \A i, j \in 1..Len(filter_value[1]) :
                  i < j => _get_synonym_formality_score(filter_value[1][i])
                              >= _get_synonym_formality_score(filter_value[1][j])
        /\ style = "simple" =>
              \A i, j \in 1..Len(filter_value[1]) :
                  i < j =>
                      \/ Len(filter_value[1][i]) < Len(filter_value[1][j])
                      \/ /\ Len(filter_value[1][i]) = Len(filter_value[1][j])
                         /\ _get_synonym_formality_score(filter_value[1][i])
                               <= _get_synonym_formality_score(filter_value[1][j])
        /\ style = "balanced" => filter_value[1] = filter_call[1]

\* a "simple" call that had to reorder, by length and then by formality
C16_Witness ==
    /\ filter_value # None /\ style = "simple"
    /\ filter_call = Some(<<"feline", "cat", "big">>)
    /\ filter_value = Some(<<"big", "cat", "feline">>)

\* C17: on the success path the word_replacements field of the result is the map used
\* for generation and scoring: the same keys, and for each key the same candidates in
\* the same order.
C17_MapReturned ==
    Success =>
        /\ DOMAIN result.word_replacements = DOMAIN word_replacements
        /\ \A key \in DOMAIN word_replacements : result.word_replacements[key] = word_replacements[key]

\* the statistics of a returned variant, computed from it against the original
StatsOfVariation(v) ==
    IF Success
    THEN _calculate_variation_stats(original, v, tokens, word_tokenize(v), word_replacements)
    ELSE _calculate_variation_stats(original, v, word_tokenize(original), word_tokenize(v), EmptyMap)

\* the score reported with a returned variant: the rounded quality score, 0 on a degraded return
ScoreOfVariation(v) == IF Success THEN FRound(QualityScore(v), 1000) ELSE 0

\* the rounded quality score of a variant in whose semantic check the lexical source
\* raised: the semantic component stays 1.0
ScoreWithoutSemantics(v) ==
    FRound(ScoreWith(original, v, tokens, word_tokenize(v), word_replacements, tagged, FALSE), 1000)

\* the score of the entry is the one computed from the variant
ScoreComputed(entry, v) ==
    \/ entry.score = ScoreOfVariation(v)
    \/ Success /\ failure = "semantic" /\ entry.score = ScoreWithoutSemantics(v)

\* the fixed statistics of line 938
MinimalStats == [similarity_percent |-> 1000, word_changes |-> 0, score |-> 0]

\* the entry has every field of the statistics, with the same value
SameFields(entry, stats) ==
    /\ DOMAIN entry = DOMAIN stats \cup {"score"}
    /\ \A field \in DOMAIN stats : entry[field] = stats[field]

\* variations and variation_stats run in parallel, each entry computed from its variant
StatsParallel ==
    /\ Len(result.variations) = Len(result.variation_stats)
    /\ \A i \in 1..Len(result.variations) :
          /\ result.variation_stats[i].score = ScoreOfVariation(result.variations[i])
          /\ SameFields(result.variation_stats[i], StatsOfVariation(result.variations[i]))

\* C18 as stated: in every result variations and variation_stats have the same length,
\* at most num_variations on the success path, and every variation_stats entry, score
\* included, was computed from the variation at the same index.
C18_StatsAttached ==
    Returned =>
        /\ StatsParallel
        /\ Success => Len(result.variations) <= num_variations

\* each entry of variation_stats computed from its variant, the score with the
\* semantic check or, when the lexical source raised in it, without
StatsComputed ==
    \A i \in 1..Len(result.variations) :
        /\ ScoreComputed(result.variation_stats[i], result.variations[i])
        /\ SameFields(result.variation_stats[i], StatsOfVariation(result.variations[i]))

\* C18 amended: in every result, also of a call whose collaborators raise, variations
\* and variation_stats have the same length, at most num_variations on the success
\* path when that is positive and 0 otherwise; every variation_stats entry, score
\* included, was computed from the variation at the same index, except that the
\* handler returns the fixed statistics of line 938 when the tokenizer raises in it.
C18_StatsAttachedWithinCount ==
    Returned =>
        /\ Len(result.variations) = Len(result.variation_stats)
        /\ \/ StatsComputed
           \/ /\ failure = "tokenizer"
              /\ result.variations = <<original>>
              /\ result.variation_stats = <<MinimalStats>>
        /\ Success => Len(result.variations) <= (IF num_variations > 0 THEN num_variations ELSE 0)

\* a success return whose two variants were reordered by the sort
C18_Witness ==
    /\ Success /\ Len(result.variations) = 2 /\ Len(generated) = 2
    /\ result.variations[1] = generated[2]
    /\ result.variation_stats[1].score > result.variation_stats[2].score

\* a text made from the original tokens by one round of replacements: token by token
\* it is the original token or a candidate of that token
FromOriginalTokens(v) ==
    LET Of(var_tokens) ==
            /\ Len(var_tokens) = Len(tokens)
            /\ \A p \in 1..Len(tokens) :
                  \/ var_tokens[p] = tokens[p]
                  \/ /\ lower(tokens[p]) \in DOMAIN word_replacements
                     /\ lower(var_tokens[p]) \in Range(word_replacements[lower(tokens[p])])
    IN  Of(word_tokenize(v))

\* C19: in aggressive mode every attempt of the loop counts against the budget and
\* either leaves the accepted variants as they are or appends one candidate, made from
\* the original tokens, whose word change is at least 0.70 and whose 2-gram overlap is
\* at most 0.55; a candidate that fails a threshold is never kept or adjusted.
C19_LoopGateDiscards ==
    [][AttemptStep /\ anti_detection =>
          /\ variation_num' = variation_num + 1
          /\ tokens' = tokens /\ original' = original /\ word_replacements' = word_replacements
          /\ \/ variations' = variations /\ seen_variations' = seen_variations
             \/ /\ Len(variations') = Len(variations) + 1
                /\ SubSeq(variations', 1, Len(variations)) = variations
                /\ LoopGate(variations'[Len(variations')])
                /\ ~LoopRejects(tokens, variations'[Len(variations')])
                /\ FromOriginalTokens(variations'[Len(variations')])]_vars

\* aggressive mode: a first attempt was discarded and a second one accepted
C19_Witness ==
    /\ pc = "loop" /\ anti_detection /\ turnitin_proof = None
    /\ variation_num = 2 /\ Len(variations) = 1
    /\ LoopGate(variations[1]) /\ FromOriginalTokens(variations[1])

\* the step that ends the loop and applies the fallbacks
FallbackStep == pc = "loop" /\ pc' = "filter"

\* the first position of the sentence whose token is eligible and has candidates
FirstReplaceablePosition ==
    CHOOSE p \in 1..Len(tokens) :
        /\ _should_replace_word(tagged[p][1], tagged[p][2]) /\ lower(tokens[p]) \in DOMAIN word_replacements
        /\ \A q \in 1..(p - 1) :
              ~(_should_replace_word(tagged[q][1], tagged[q][2]) /\ lower(tokens[q]) \in DOMAIN word_replacements)

\* the original tokens with only the first replaceable word replaced, by the first
\* candidate of its list
ForcedShape(v) ==
    LET Of(var_tokens, p) ==
            /\ Len(var_tokens) = Len(tokens)
            /\ \A q \in 1..Len(tokens) : q # p => var_tokens[q] = tokens[q]
            /\ lower(var_tokens[p]) = word_replacements[lower(tokens[p])][1]
    IN  Of(word_tokenize(v), FirstReplaceablePosition)

\* C20: the fallbacks run after the loop and only on an empty variant list: with
\* nothing accepted by the proof generator or by any attempt of the spent budget, the
\* forced variant is the original with only its first replaceable word replaced by the
\* first candidate of its list; the original becomes the sole variant only if that
\* adds nothing; a non-empty list is left as it is.
C20_FallbackOrder ==
    [][FallbackStep =>
          /\ variations # <<>> => variations' = variations
          /\ variations = <<>> =>
                /\ seen_variations = {} /\ turnitin_proof = None
                /\ variation_num = AttemptBudget
                /\ Len(variations') = 1
                /\ \/ ForcedShape(variations'[1]) /\ lower(variations'[1]) # lower(original)
                   \/ variations' = <<original>> /\ ForcedVariation = <<>>]_vars

\* aggressive mode with the whole budget spent in vain: the forced variant stands alone
C20_Witness ==
    /\ pc = "filter" /\ anti_detection /\ num_variations >= 1
    /\ seen_variations = {} /\ turnitin_proof = None
    /\ Len(variations) = 1 /\ variations[1] # original
    /\ ForcedShape(variations[1])

\* the positions of the tokens listed in replaceable_words
ReplaceablePositions == {replaceable_words[k][1] + 1 : k \in 1..Len(replaceable_words)}

\* the candidate list of the original word at a position
CandidatesAt(p) == word_replacements[lower(tokens[p])]

\* C21: a candidate of the standard replacement pass has as many tokens as the
\* original; a token outside the replaceable positions is unchanged; a changed token
\* is, up to case, a candidate of the original word at its position and starts with an
\* upper-case letter exactly when the original token does; the original tokens are
\* still those of the sentence.
C21_ReplacementFrame ==
    replaced_tokens # None /\ ~anti_detection =>
        /\ tokens = word_tokenize(original)
        /\ Len(replaced_tokens[1]) = Len(tokens)
        /\ \A p \in 1..Len(tokens) :
              /\ p \notin ReplaceablePositions => replaced_tokens[1][p] = tokens[p]
              /\ replaced_tokens[1][p] # tokens[p] =>
                    /\ lower(tokens[p]) \in DOMAIN word_replacements
                    /\ lower(replaced_tokens[1][p]) \in Range(CandidatesAt(p))
                    /\ isupper(Head(replaced_tokens[1][p])) <=> isupper(Head(tokens[p]))

\* a standard pass that replaced the capitalised first word and another word and left
\* the third word and the full stop alone
C21_Witness ==
    /\ replaced_tokens # None /\ ~anti_detection
    /\ tokens = <<"Big", "cat", "sat", ".">>
    /\ replaced_tokens = Some(<<"Grand", "kitty", "sat", ".">>)

\* the place of a word in a list, counted from 0 as the code does
PlaceIn(list, word) == (CHOOSE i \in 1..Len(list) : list[i] = word) - 1

\* start_idx of the aggressive draw from a list of n candidates
LeastCommonStart(n) == IF n - n \div 3 > n \div 2 THEN n - n \div 3 ELSE n \div 2

\* C22: in the aggressive replacement pass the replacement of a word with n candidates
\* has an index of at least max(n - n div 3, n div 2) when n >= 4, is the last
\* candidate when n is 2 or 3 and the only one when n = 1; for n >= 2 it is never the
\* first candidate.
C22_LeastCommonChoice ==
    replaced_tokens # None /\ anti_detection =>
        \A p \in 1..Len(tokens) :
            replaced_tokens[1][p] # tokens[p] =>
                /\ lower(replaced_tokens[1][p]) \in Range(CandidatesAt(p))
                /\ Len(CandidatesAt(p)) >= 4 =>
                      PlaceIn(CandidatesAt(p), lower(replaced_tokens[1][p]))
                          >= LeastCommonStart(Len(CandidatesAt(p)))
                /\ Len(CandidatesAt(p)) \in {2, 3} =>
                      PlaceIn(CandidatesAt(p), lower(replaced_tokens[1][p])) = Len(CandidatesAt(p)) - 1
                /\ Len(CandidatesAt(p)) = 1 =>
                      PlaceIn(CandidatesAt(p), lower(replaced_tokens[1][p])) = 0
                /\ Len(CandidatesAt(p)) >= 2 =>
                      PlaceIn(CandidatesAt(p), lower(replaced_tokens[1][p])) # 0

\* an aggressive pass over lists of six, three and one candidates
C22_Witness ==
    /\ replaced_tokens # None /\ anti_detection
    /\ Len(word_replacements["big"]) = 6 /\ Len(word_replacements["cat"]) = 3
    /\ Len(word_replacements["sat"]) = 1
    /\ \/ replaced_tokens = Some(<<"Giant", "kitty", "sat", ".">>)
       \/ replaced_tokens = Some(<<"Giant", "cat", "sit", ".">>)

\* the listed pattern the loop of lines 583-590 applies to a text: the first that
\* matches, 0 when none does
RECURSIVE FirstMatchingFrom(_, _)
FirstMatchingFrom(s, k) ==
    IF k > StructuralPatterns THEN 0
    ELSE IF Matches(k, s) THEN k
    ELSE FirstMatchingFrom(s, k + 1)

FirstMatching(s) == FirstMatchingFrom(s, 1)

\* C23 as stated: in one call at most one of the structural substitutions, the
\* leading-article replacement among them, is applied to the sentence.
C23_AtMostOneSubstitution ==
    structural_value # None =>
        ~(/\ FirstMatching(structural_call[1]) # 0
          /\ LeadingWordEnd(structural_value[1].after_list, {"the", "a", "an"}) # 0)

\* C23 amended: of the six listed patterns only the first that matches is applied,
\* once; the leading-article replacement and the leading-pronoun replacement are not
\* in that list and are each applied afterwards whenever the text then starts with
\* such a word.
C23_FirstListedThenStarters ==
    LET Holds(s, value, first, article_end, pronoun_end) ==
            /\ first = 0 => value.after_list = s
            /\ first # 0 => value.after_list = SubFirst(first, s)
            /\ article_end = 0 => value.after_starter = value.after_list
            /\ article_end # 0 =>
                  \E w \in {"this", "such", "one"} :
                      value.after_starter = w \o " " \o Mid(value.after_list, article_end, Len(value.after_list))
            /\ pronoun_end = 0 => value.after_pronoun = value.after_starter
            /\ pronoun_end # 0 =>
                  value.after_pronoun =
                      "the aforementioned " \o Mid(value.after_starter, pronoun_end, Len(value.after_starter))
    IN  structural_value # None =>
            Holds(structural_call[1], structural_value[1],
                  FirstMatching(structural_call[1]),
                  LeadingWordEnd(structural_value[1].after_list, {"the", "a", "an"}),
                  LeadingWordEnd(structural_value[1].after_starter, {"this", "that", "it"}))

\* the adverb pattern was applied, and then the leading article was replaced
C23_Witness ==
    /\ structural_call = Some("The quickly cat")
    /\ structural_value # None
    /\ FirstMatching(structural_call[1]) = 3
    /\ structural_value[1].after_list = "The cat quickly"
    /\ structural_value[1].after_starter = "such cat quickly"

(***************************************************************************)
(* Properties of the batch endpoint                                        *)
(***************************************************************************)
\* the request passed the checks of lines 72-84: a non-empty array of at most 50 elements
BulkAccepted ==
    /\ bulk.paragraphs_kind = "array"
    /\ Len(bulk.paragraphs) \in 1..MaxParagraphs

\* how many entries of a list of the report carry the index i
EntriesOf(list, i) == Cardinality({k \in DOMAIN list : list[k].index = i})

\* the response is a report that accounts for every paragraph exactly once
IsBatchReport(response) ==
    /\ response.status = 200
    /\ \A i \in 0..(Len(bulk.paragraphs) - 1) :
          EntriesOf(response.results, i) + EntriesOf(response.errors_detail, i) = 1
    /\ response.success + response.errors = Len(bulk.paragraphs)
    /\ response.success = Len(response.results)
    /\ response.errors = Len(response.errors_detail)

\* some element is neither falsy nor a string: it has no strip method
FirstWithoutStrip ==
    LET bad == {i \in DOMAIN bulk.paragraphs :
                   Truthy(bulk.paragraphs[i]) /\ bulk.paragraphs[i].type # "string"}
    IN  IF bad = {} THEN 0 ELSE CHOOSE i \in bad : \A j \in bad : i <= j

\* C24: for every request whose paragraphs field is a non-empty array of at most 50
\* elements, the response is a 200 batch report in which every paragraph index is in
\* exactly one of results and errors_detail and success + errors is the number of
\* paragraphs, whatever happened to the single paragraphs.
C24_BatchReport ==
    (pc = "returned" /\ BulkAccepted) => IsBatchReport(bulk.response)

\* what the handler does instead: the report is complete when every element is a
\* string or falsy; at the first other element the whole request ends with status
\* 500, and neither it nor any paragraph after it is processed.
C24_ReportUnlessElementWithoutStrip ==
    (pc = "returned" /\ BulkAccepted) =>
        IF FirstWithoutStrip = 0
        THEN IsBatchReport(bulk.response)
        ELSE /\ bulk.response = ErrorResponse(500, "Unable to process the request right now.")
             /\ bulk.idx = FirstWithoutStrip - 1
             /\ Len(bulk.results) + Len(bulk.errors) = bulk.idx

\* the batch ["The cat sat.", 5, "The cat sat."] was answered with status 500
C24_Aborted ==
    /\ pc = "returned"
    /\ bulk.paragraphs = <<JsonString("The cat sat."), JsonNumber(5), JsonString("The cat sat.")>>
    /\ bulk.num_variations = JsonNumber(3)
    /\ bulk.response.status = 500
    /\ bulk.results = <<[index |-> 0, original |-> "The cat sat.", success |-> TRUE]>>

\* a batch with a blank and a failing paragraph before a last one was reported in full
C24_Reported ==
    /\ pc = "returned"
    /\ bulk.paragraphs = <<JsonString(" "), JsonNull, JsonString("The cat sat.")>>
    /\ bulk.num_variations = JsonString("two")
    /\ IsBatchReport(bulk.response)
    /\ bulk.response.success = 0
    /\ bulk.response.errors_detail[3].error = "Processing failed"

====
